---- MODULE Spec2Model ----
(***************************************************************************)
(* A model of fxDrawingContext (a tagged union over "no target", a native *)
(* wxGraphicsContext and a plain wxDC) and of fxGraphicsPath (a recorded   *)
(* segment sequence, mirrored into a native wxGraphicsPath when a graphics *)
(* context is available).                                                  *)
(*                                                                         *)
(* Two specifications share the variables:                                 *)
(*   Spec      the life cycle of drawing contexts and the calls they       *)
(*             dispatch to their backend (fxDrawingContext.cpp);           *)
(*   SpecPath  the builder, AddPath, Transform and query calls of          *)
(*             fxGraphicsPath (fxGraphicsPath.hpp).                        *)
(***************************************************************************)
EXTENDS Integers, Sequences, FiniteSets, TLC

VARIABLES
    ctx,     \* context variable -> fxDrawingContext object (or an ended lifetime)
    heap,    \* promoted wxGraphicsContext -> shared_ptr control block
    paths,   \* path variable -> fxGraphicsPath object
    last,    \* the call made by the last step
    calls,   \* the backend calls that call issued, in order
    ret      \* the value that call returned

vars == <<ctx, heap, paths, last, calls, ret>>

----------------------------------------------------------------------------
(* Objects of the environment *)

NULL == "nullptr"

\* What a call returns: the kind of value and the value; Void for a call
\* that returns nothing.
Returns(kind, val) == [kind |-> kind, val |-> val]
Void == Returns("void", NULL)

\* Variables of type fxDrawingContext in the calling code.
Ctx == {"ctxA", "ctxB"}

\* Variables of type fxGraphicsPath in the calling code.
PathVar == {"p", "q"}

\* wxDC objects the caller may hand over, one of each dynamic type.
DC == {"windowDC", "memoryDC", "printerDC", "svgDC"}

\* wxGraphicsContext objects the caller created itself (theApp.hpp:86).
CallerGC == {"gcA", "gcB"}

\* wxGraphicsContext objects wxGraphicsContext::Create may return to the
\* constructor from wxDC*.
PromotedGC == {"gc1", "gc2", "gc3"}

GC == CallerGC \cup PromotedGC

----------------------------------------------------------------------------
(* fxDrawingContext: the variant and its introspection *)

\* std::variant<std::monostate, wxGraphicsContext*, wxDC*>: the index of the
\* active alternative and the pointer it holds.
Monostate == [index |-> 0, value |-> NULL]
HoldsGC(gc) == [index |-> 1, value |-> gc]
HoldsDC(dc) == [index |-> 2, value |-> dc]

IsValid(c) == c.m_context.index # 0
IsGC(c) == c.m_context.index = 1
IsDC(c) == c.m_context.index = 2

\* A context variable whose lifetime has ended.
Ended == [alive |-> FALSE, m_context |-> Monostate, m_ownedGC |-> NULL]

\* fxDrawingContext() = default
DefaultCtx == [alive |-> TRUE, m_context |-> Monostate, m_ownedGC |-> NULL]

\* fxDrawingContext(wxGraphicsContext* gc)
CtxFromGC(gc) ==
    [alive |-> TRUE,
     m_context |-> IF gc # NULL THEN HoldsGC(gc) ELSE Monostate,
     m_ownedGC |-> NULL]

\* The dynamic_casts to wxWindowDC, wxMemoryDC and wxPrinterDC.
Promotable(dc) == dc \in {"windowDC", "memoryDC", "printerDC"}

\* CtxFromDC with "m_context = rawGC" forgotten: the created backend is owned
\* but the context stays on the DC.
CtxFromDCKeepsDC(dc, created) ==
    IF dc = NULL
    THEN [alive |-> TRUE, m_context |-> Monostate, m_ownedGC |-> NULL]
    ELSE LET rawGC == IF Promotable(dc) THEN created ELSE NULL
         IN  [alive |-> TRUE, m_context |-> HoldsDC(dc), m_ownedGC |-> rawGC]

\* fxDrawingContext(wxDC* dc); created is what wxGraphicsContext::Create
\* returns when it is called.
CtxFromDC(dc, created) ==
    IF dc = NULL
    THEN [alive |-> TRUE, m_context |-> Monostate, m_ownedGC |-> NULL]
    ELSE LET rawGC == IF Promotable(dc) THEN created ELSE NULL
         IN  IF rawGC # NULL
             THEN [alive |-> TRUE, m_context |-> HoldsGC(rawGC), m_ownedGC |-> rawGC]
             ELSE [alive |-> TRUE, m_context |-> HoldsDC(dc), m_ownedGC |-> NULL]

----------------------------------------------------------------------------
(* std::shared_ptr<wxGraphicsContext> m_ownedGC *)

NoBlock == [live |-> FALSE, use_count |-> 0]

\* shared_ptr(rawGC, deleter): a new control block with one owner.
SharedNew(h, g) ==
    IF g = NULL THEN h ELSE [h EXCEPT ![g] = [live |-> TRUE, use_count |-> 1]]

\* Copying a shared_ptr adds an owner.
SharedCopy(h, g) ==
    IF g = NULL THEN h ELSE [h EXCEPT ![g].use_count = @ + 1]

\* SharedRelease as a sole owner would do it: the backend is deleted whenever
\* an owner goes.
SharedReleaseSoleOwner(h, g) ==
    IF g = NULL THEN h ELSE [h EXCEPT ![g] = NoBlock]

\* Destroying or overwriting a shared_ptr drops an owner; the deleter runs
\* (delete p) when the last one goes.
SharedRelease(h, g) ==
    IF g = NULL THEN h
    ELSE IF h[g].use_count = 1
         THEN [h EXCEPT ![g] = NoBlock]
         ELSE [h EXCEPT ![g].use_count = @ - 1]

\* What wxGraphicsContext::Create may return: no backend, or a backend object
\* that does not exist yet.
Creatable(dc) ==
    IF dc # NULL /\ Promotable(dc)
    THEN {NULL} \cup {g \in PromotedGC : ~heap[g].live}
    ELSE {NULL}

\* The implicitly defined copy assignment, dst = src, on the control blocks.
AssignHeap(h, dstOwned, srcOwned) ==
    SharedRelease(SharedCopy(h, srcOwned), dstOwned)

\* Storing a newly constructed context in variable c: direct initialisation
\* when c holds no object, else assignment from the temporary, which is then
\* destroyed (theApp.hpp:80, 87).
StoreNew(c, tmp) ==
    LET h1 == SharedNew(heap, tmp.m_ownedGC)
    IN  /\ ctx' = [ctx EXCEPT ![c] = tmp]
        /\ heap' = IF ctx[c].alive
                   THEN SharedRelease(AssignHeap(h1, ctx[c].m_ownedGC, tmp.m_ownedGC),
                                      tmp.m_ownedGC)
                   ELSE h1

----------------------------------------------------------------------------
(* Backend calls *)

Call(tgt, op, arg) == [tgt |-> tgt, op |-> op, arg |-> arg]

\* Visit without a std::monostate branch: whatever is not a wxGraphicsContext*
\* is taken for a wxDC*.
VisitNoMonostate(m_context, onGC, onDC) ==
    IF m_context.index = 1 THEN onGC ELSE onDC

\* std::visit over m_context with the lambdas' "if (ctx)" guards: the calls of
\* the wxGraphicsContext* branch, those of the wxDC* branch, none for
\* std::monostate.
Visit(m_context, onGC, onDC) ==
    IF m_context.index = 1
    THEN (IF m_context.value # NULL THEN onGC ELSE << >>)
    ELSE IF m_context.index = 2
         THEN (IF m_context.value # NULL THEN onDC ELSE << >>)
         ELSE << >>

----------------------------------------------------------------------------
(* fxGraphicsPath: construction *)

\* fxGraphicsPath() and fxGraphicsPath(wxGraphicsContext* gc): m_path is the
\* native path m_gc->CreatePath() returns (no elements yet) when gc is given.
PathCtor(gc) == [m_gc |-> gc, m_path |-> << >>, m_segments |-> << >>]

----------------------------------------------------------------------------
(* The fallback for a plain wxDC *)

wxODDEVEN_RULE == "wxODDEVEN_RULE"
wxWINDING_RULE == "wxWINDING_RULE"
FillMode == {wxODDEVEN_RULE, wxWINDING_RULE}

\* The pens and brushes a wxDC may hold when a fallback starts.
Pen == {"wxBLACK_PEN", "wxGREEN_PEN"}
Brush == {"wxRED_BRUSH", "wxBLUE_BRUSH"}

\* The fallback computes in double and hands wxDC integer points.  A double
\* is kept in thousandths: segment coordinates and radii are whole numbers, a
\* sample of a curve is a whole number of thousandths.
Milli == 1000
ToMilli(pt) == <<pt[1] * Milli, pt[2] * Milli>>

\* The conversion (int)x of a double to int: towards zero.
TruncDiv(n, d) == IF n >= 0 THEN n \div d ELSE -((-n) \div d)

\* wxPoint((int)pt.m_x, (int)pt.m_y)
wxPoint(pt) == <<TruncDiv(pt[1], Milli), TruncDiv(pt[2], Milli)>>

\* Angles are kept in twenty-fourths of a turn: M_PI is 12 of them.  The
\* angles of an Arc segment are whole multiples of M_PI.
M_PI == 12

\* std::cos and std::sin of k twenty-fourths of a turn, in thousandths.
CosQuarter == <<1000, 966, 866, 707, 500, 259, 0>>
Cos(k) ==
    LET m == k % 24
    IN  IF m <= 6 THEN CosQuarter[m + 1]
        ELSE IF m <= 12 THEN -CosQuarter[12 - m + 1]
        ELSE IF m <= 18 THEN -CosQuarter[m - 12 + 1]
        ELSE CosQuarter[24 - m + 1]
Sin(k) == Cos(k + 18)

\* ApproxArc(cx, cy, r, angleStart, angleEnd, clockwise, steps): steps + 1
\* points on the circle of radius r around c.
ApproxArc(c, r, angleStart, angleEnd, clockwise, steps) ==
    LET totalAngle == IF clockwise THEN angleStart - angleEnd
                      ELSE angleEnd - angleStart
        angle(i) == IF clockwise
                    THEN angleStart - (i * (angleStart - angleEnd)) \div steps
                    ELSE angleStart + (i * totalAngle) \div steps
    IN  [k \in 1..(steps + 1) |->
            <<c[1] + r * Cos(angle(k - 1)), c[2] + r * Sin(angle(k - 1))>>]

\* ApproxQuadBezier whose loop runs while i < steps: the end point is missing.
ApproxQuadBezierOpenEnd(p0, c, p1, steps) ==
    LET B(i, k) == TruncDiv((steps - i) * (steps - i) * p0[k]
                            + 2 * i * (steps - i) * c[k]
                            + i * i * p1[k], steps * steps)
    IN  [n \in 1..steps |-> <<B(n - 1, 1), B(n - 1, 2)>>]

\* ApproxQuadBezier(x0, y0, cx, cy, x1, y1, steps): steps + 1 points
\* B(t) = (1-t)^2 P0 + 2t(1-t) P1 + t^2 P2 at t = i / steps.
ApproxQuadBezier(p0, c, p1, steps) ==
    LET B(i, k) == TruncDiv((steps - i) * (steps - i) * p0[k]
                            + 2 * i * (steps - i) * c[k]
                            + i * i * p1[k], steps * steps)
    IN  [n \in 1..(steps + 1) |-> <<B(n - 1, 1), B(n - 1, 2)>>]

\* ApproxCubicBezier(x0, y0, cx1, cy1, cx2, cy2, x1, y1, steps): steps + 1
\* points B(t) = (1-t)^3 P0 + 3t(1-t)^2 P1 + 3t^2(1-t) P2 + t^3 P3.
ApproxCubicBezier(p0, c1, c2, p1, steps) ==
    LET B(i, k) == TruncDiv((steps - i) * (steps - i) * (steps - i) * p0[k]
                            + 3 * i * (steps - i) * (steps - i) * c1[k]
                            + 3 * i * i * (steps - i) * c2[k]
                            + i * i * i * p1[k], steps * steps * steps)
    IN  [n \in 1..(steps + 1) |-> <<B(n - 1, 1), B(n - 1, 2)>>]

\* The wxPoints of all the samples poly, the first included.
PointsFromFirst(poly, from) ==
    [k \in 1..Len(poly) |-> wxPoint(poly[k])]

\* The wxPoints of the samples poly from the from-th on.
Points(poly, from) ==
    [k \in 1..(Len(poly) - from + 1) |-> wxPoint(poly[k + from - 1])]

\* The Close case flushing the subpath as an open polyline.
CloseFlushAsLines(dc, fillMode, st) ==
    IF st.currentSubpath # << >>
    THEN [st EXCEPT
            !.drawn = Append(@, Call(dc, "DrawLines", st.currentSubpath)),
            !.currentSubpath = << >>]
    ELSE st

\* case fxPathSegmentType::Close: a non-empty subpath goes to DrawPolygon with
\* the fill mode of the walk and is cleared.
CloseFlush(dc, fillMode, st) ==
    IF st.currentSubpath # << >>
    THEN [st EXCEPT
            !.drawn = Append(@, Call(dc, "DrawPolygon", <<st.currentSubpath, fillMode>>)),
            !.currentSubpath = << >>]
    ELSE st

\* The Rectangle case adding the two corners to the subpath instead of
\* drawing.
RectangleTurnJoinsSubpath(dc, st, seg) ==
    [st EXCEPT !.currentSubpath = @ \o <<seg.points[1], seg.points[2]>>,
               !.lastPt = ToMilli(seg.points[2]),
               !.haveLastPt = TRUE]

\* case fxPathSegmentType::Rectangle: points[0] and points[1] are read without
\* a test of points.size(), and the rectangle goes to DrawRectangle.
RectangleTurn(dc, st, seg) ==
    [st EXCEPT !.drawn = Append(@, Call(dc, "DrawRectangle",
        <<seg.points[1][1], seg.points[1][2],
          seg.points[2][1] - seg.points[1][1],
          seg.points[2][2] - seg.points[1][2]>>))]

\* One turn of the loop of DrawPathOnDC: the case of seg.type.  st holds
\* currentSubpath, lastPt, haveLastPt and the calls made on dc so far.
RenderSegment(dc, fillMode, st, seg) ==
    LET n == Len(seg.points)
        pt(k) == ToMilli(seg.points[k])
    IN  CASE seg.type = "MoveTo" ->
                LET flushed == IF st.currentSubpath # << >>
                               THEN [st EXCEPT
                                       !.drawn = Append(@, Call(dc, "DrawLines", st.currentSubpath)),
                                       !.currentSubpath = << >>]
                               ELSE st
                IN  IF n > 0
                    THEN [flushed EXCEPT !.lastPt = pt(1), !.haveLastPt = TRUE,
                                         !.currentSubpath = Append(@, wxPoint(pt(1)))]
                    ELSE flushed
          [] seg.type = "LineTo" ->
                IF n > 0
                THEN [st EXCEPT !.lastPt = pt(1), !.haveLastPt = TRUE,
                                !.currentSubpath = Append(@, wxPoint(pt(1)))]
                ELSE st
          [] seg.type = "QuadCurveTo" ->
                IF n >= 2 /\ st.haveLastPt
                THEN [st EXCEPT
                        !.currentSubpath =
                            @ \o Points(ApproxQuadBezier(st.lastPt, pt(1), pt(2), 12), 2),
                        !.lastPt = pt(2)]
                ELSE st
          [] seg.type = "CurveTo" ->
                IF n >= 3 /\ st.haveLastPt
                THEN [st EXCEPT
                        !.currentSubpath =
                            @ \o Points(ApproxCubicBezier(st.lastPt, pt(1), pt(2), pt(3), 12), 2),
                        !.lastPt = pt(3)]
                ELSE st
          [] seg.type = "Arc" ->
                IF n > 0
                THEN LET arcPts == ApproxArc(pt(1), seg.radius, seg.startAngle * M_PI,
                                             seg.endAngle * M_PI, seg.clockwise, 12)
                     IN  [st EXCEPT !.currentSubpath = @ \o Points(arcPts, 1),
                                    !.lastPt = arcPts[Len(arcPts)],
                                    !.haveLastPt = TRUE]
                ELSE st
          [] seg.type = "ArcTo" ->
                IF n >= 2 /\ st.haveLastPt
                THEN [st EXCEPT !.currentSubpath = @ \o <<wxPoint(pt(1)), wxPoint(pt(2))>>,
                                !.lastPt = pt(2)]
                ELSE st
          [] seg.type = "Rectangle" -> RectangleTurn(dc, st, seg)
          [] seg.type = "RoundedRectangle" ->
                IF n >= 2
                THEN LET r == seg.radius
                         TL == ToMilli(<<seg.points[1][1] + r, seg.points[1][2] + r>>)
                         TR == ToMilli(<<seg.points[2][1] - r, seg.points[1][2] + r>>)
                         BR == ToMilli(<<seg.points[2][1] - r, seg.points[2][2] - r>>)
                         BL == ToMilli(<<seg.points[1][1] + r, seg.points[2][2] - r>>)
                         outline ==
                              Points(ApproxArc(TL, r, M_PI, (3 * M_PI) \div 2, FALSE, 6), 1)
                           \o Points(ApproxArc(TR, r, (3 * M_PI) \div 2, 2 * M_PI, FALSE, 6), 1)
                           \o Points(ApproxArc(BR, r, 0, M_PI \div 2, FALSE, 6), 1)
                           \o Points(ApproxArc(BL, r, M_PI \div 2, M_PI, FALSE, 6), 1)
                     IN  [st EXCEPT
                            !.drawn = Append(@, Call(dc, "DrawPolygon", <<outline, fillMode>>)),
                            !.lastPt = ToMilli(outline[Len(outline)]),
                            !.haveLastPt = TRUE]
                ELSE st
          [] seg.type = "Ellipse" ->
                IF n = 1
                THEN [st EXCEPT !.drawn = Append(@, Call(dc, "DrawEllipse",
                        <<seg.points[1][1] - seg.radius, seg.points[1][2] - seg.radius,
                          2 * seg.radius, 2 * seg.radius>>))]
                ELSE IF n = 2
                THEN [st EXCEPT !.drawn = Append(@, Call(dc, "DrawEllipse",
                        <<seg.points[1][1], seg.points[1][2],
                          seg.points[2][1] - seg.points[1][1],
                          seg.points[2][2] - seg.points[1][2]>>))]
                ELSE st
          [] seg.type = "Close" -> CloseFlush(dc, fillMode, st)
          [] OTHER -> st

\* The loop of DrawPathOnDC over the segments from the i-th on.
RECURSIVE RenderLoop(_, _, _, _, _)
RenderLoop(dc, fillMode, st, segments, i) ==
    IF i > Len(segments) THEN st
    ELSE RenderLoop(dc, fillMode, RenderSegment(dc, fillMode, st, segments[i]),
                    segments, i + 1)

\* currentSubpath, lastPt and haveLastPt as DrawPathOnDC declares them, and no
\* call made yet.
WalkStart ==
    [currentSubpath |-> << >>, lastPt |-> <<0, 0>>, haveLastPt |-> FALSE,
     drawn |-> << >>]

\* The walk of DrawPathOnDC without the DrawLines at its end: the subpath
\* left open is dropped.
RenderSegmentsNoFlush(dc, segments, fillMode) ==
    RenderLoop(dc, fillMode, WalkStart, segments, 1).drawn

\* The walk of DrawPathOnDC over a non-empty segment sequence, and the
\* DrawLines of the subpath left open at its end.
RenderSegments(dc, segments, fillMode) ==
    LET st == RenderLoop(dc, fillMode, WalkStart, segments, 1)
    IN  IF st.currentSubpath # << >>
        THEN Append(st.drawn, Call(dc, "DrawLines", st.currentSubpath))
        ELSE st.drawn

\* The turn for seg allocates (push_back on currentSubpath, the vector of an
\* approximator, the outline of a rounded rectangle), so it may throw
\* std::bad_alloc.
Allocates(st, seg) ==
    LET n == Len(seg.points)
    IN  CASE seg.type \in {"MoveTo", "LineTo", "Arc"} -> n > 0
          [] seg.type \in {"QuadCurveTo", "ArcTo"} -> n >= 2 /\ st.haveLastPt
          [] seg.type = "CurveTo" -> n >= 3 /\ st.haveLastPt
          [] seg.type = "RoundedRectangle" -> n >= 2
          [] OTHER -> FALSE

\* Where a walk over segments may end in an exception: nowhere (0), in
\* currentSubpath.reserve(16) (-1), or in the turn for the k-th segment when
\* that turn allocates.  An empty sequence returns before anything is
\* allocated.
ThrowPoints(segments) ==
    IF segments = << >> THEN {0}
    ELSE {0, -1} \cup
         {k \in 1..Len(segments) :
            Allocates(RenderLoop(NULL, wxODDEVEN_RULE, WalkStart,
                                 SubSeq(segments, 1, k - 1), 1),
                      segments[k])}

\* The walk that throws in the turn for the k-th segment: the turns before it
\* are complete, and a MoveTo has flushed the open subpath before its
\* push_back throws.
AbortedWalk(dc, segments, fillMode, k) ==
    LET st == RenderLoop(dc, fillMode, WalkStart, SubSeq(segments, 1, k - 1), 1)
    IN  IF segments[k].type = "MoveTo" /\ st.currentSubpath # << >>
        THEN Append(st.drawn, Call(dc, "DrawLines", st.currentSubpath))
        ELSE st.drawn

\* DrawPathOnDC(dc, path, fillMode): the primitives drawn on dc; thrownAt is
\* where the walk throws, 0 when it does not.
DrawPathOnDC(dc, segments, fillMode, thrownAt) ==
    IF dc = NULL THEN << >>
    ELSE IF segments = << >> THEN << >>
    ELSE IF thrownAt = 0 THEN RenderSegments(dc, segments, fillMode)
    ELSE IF thrownAt = -1 THEN << >>
    ELSE AbortedWalk(dc, segments, fillMode, thrownAt)

\* FillPathOnDC that does not put the pen back.
FillPathOnDCKeepsPen(dc, oldPen, segments, fillMode, thrownAt) ==
    IF dc = NULL THEN << >>
    ELSE <<Call(dc, "GetPen", NULL), Call(dc, "SetPen", "wxTRANSPARENT_PEN")>>
         \o DrawPathOnDC(dc, segments, fillMode, thrownAt)

\* FillPathOnDC(dc, path, fillMode); oldPen is what dc->GetPen() returns.  An
\* exception out of DrawPathOnDC leaves the function before dc->SetPen(oldPen).
FillPathOnDC(dc, oldPen, segments, fillMode, thrownAt) ==
    IF dc = NULL THEN << >>
    ELSE <<Call(dc, "GetPen", NULL), Call(dc, "SetPen", "wxTRANSPARENT_PEN")>>
         \o DrawPathOnDC(dc, segments, fillMode, thrownAt)
         \o (IF thrownAt = 0 THEN <<Call(dc, "SetPen", oldPen)>> ELSE << >>)

\* StrokePathOnDC(dc, path); oldBrush is what dc->GetBrush() returns.  An
\* exception out of DrawPathOnDC leaves the function before
\* dc->SetBrush(oldBrush).
StrokePathOnDC(dc, oldBrush, segments, thrownAt) ==
    IF dc = NULL THEN << >>
    ELSE <<Call(dc, "GetBrush", NULL), Call(dc, "SetBrush", "wxTRANSPARENT_BRUSH")>>
         \o DrawPathOnDC(dc, segments, wxODDEVEN_RULE, thrownAt)
         \o (IF thrownAt = 0 THEN <<Call(dc, "SetBrush", oldBrush)>> ELSE << >>)

----------------------------------------------------------------------------
(* fxDrawingContext: construction, assignment, destruction *)

\* fxDrawingContext c;  or  c = fxDrawingContext();
BindNone(c) ==
    /\ StoreNew(c, DefaultCtx)
    /\ last' = [op |-> "BindNone", ctx |-> c, path |-> NULL, arg |-> NULL]
    /\ calls' = << >>
    /\ ret' = Void
    /\ UNCHANGED paths

\* fxDrawingContext c(gc);  or  c = fxDrawingContext(gc);  (theApp.hpp:87)
BindGC(c, gc) ==
    /\ StoreNew(c, CtxFromGC(gc))
    /\ last' = [op |-> "BindGC", ctx |-> c, path |-> NULL, arg |-> gc]
    /\ calls' = << >>
    /\ ret' = Void
    /\ UNCHANGED paths

\* fxDrawingContext c(dc);  or  c = fxDrawingContext(dc);  (theApp.hpp:80)
BindDC(c, dc) ==
    \E created \in Creatable(dc) :
        /\ StoreNew(c, CtxFromDC(dc, created))
        /\ last' = [op |-> "BindDC", ctx |-> c, path |-> NULL, arg |-> <<dc, created>>]
        /\ calls' = IF dc # NULL /\ Promotable(dc)
                    THEN <<Call(dc, "wxGraphicsContext::Create", NULL)>>
                    ELSE << >>
        /\ ret' = Void
        /\ UNCHANGED paths

\* dst = src;  or  fxDrawingContext dst(src);  the implicit member-wise copy.
Copy(dst, src) ==
    /\ ctx[src].alive
    /\ ctx' = [ctx EXCEPT ![dst] = ctx[src]]
    /\ heap' = AssignHeap(heap, ctx[dst].m_ownedGC, ctx[src].m_ownedGC)
    /\ last' = [op |-> "Copy", ctx |-> dst, path |-> NULL, arg |-> src]
    /\ calls' = << >>
    /\ ret' = Void
    /\ UNCHANGED paths

\* ~fxDrawingContext() = default, at the end of c's scope.
Destroy(c) ==
    /\ ctx[c].alive
    /\ ctx' = [ctx EXCEPT ![c] = Ended]
    /\ heap' = SharedRelease(heap, ctx[c].m_ownedGC)
    /\ last' = [op |-> "Destroy", ctx |-> c, path |-> NULL, arg |-> NULL]
    /\ calls' = << >>
    /\ ret' = Void
    /\ UNCHANGED paths

----------------------------------------------------------------------------
(* fxDrawingContext: the dispatched calls *)

\* What a call on context variable c leaves behind: the backend calls issued,
\* the value returned, and nothing else.
Dispatched(op, c, p, arg, issued, result) ==
    /\ ctx[c].alive
    /\ last' = [op |-> op, ctx |-> c, path |-> p, arg |-> arg]
    /\ calls' = issued
    /\ ret' = result
    /\ UNCHANGED <<ctx, heap, paths>>

\* SetFont(font, colour)
SetFont(c) ==
    LET v == ctx[c].m_context
    IN  Dispatched("SetFont", c, NULL, NULL,
                   Visit(v, <<Call(v.value, "SetFont", NULL)>>,
                            <<Call(v.value, "SetFont", NULL),
                              Call(v.value, "SetTextForeground", NULL)>>),
                   Void)

\* SetBrush(brush)
SetBrush(c, brush) ==
    LET v == ctx[c].m_context
    IN  Dispatched("SetBrush", c, NULL, brush,
                   Visit(v, <<Call(v.value, "SetBrush", brush)>>,
                            <<Call(v.value, "SetBrush", brush)>>),
                   Void)

\* SetPen(pen)
SetPen(c, pen) ==
    LET v == ctx[c].m_context
    IN  Dispatched("SetPen", c, NULL, pen,
                   Visit(v, <<Call(v.value, "SetPen", pen)>>,
                            <<Call(v.value, "SetPen", pen)>>),
                   Void)

\* DrawRectangle(x, y, w, h)
DrawRectangle(c) ==
    LET v == ctx[c].m_context
    IN  Dispatched("DrawRectangle", c, NULL, NULL,
                   Visit(v, <<Call(v.value, "DrawRectangle", NULL)>>,
                            <<Call(v.value, "DrawRectangle", NULL)>>),
                   Void)

\* DrawText(text, x, y) and DrawText(text, x, y, angleRad)
DrawText(c, rotated) ==
    LET v == ctx[c].m_context
    IN  Dispatched("DrawText", c, NULL, rotated,
                   Visit(v, <<Call(v.value, "DrawText", NULL)>>,
                            <<Call(v.value,
                                   IF rotated THEN "DrawRotatedText" ELSE "DrawText",
                                   NULL)>>),
                   Void)

\* StrokeLine(x1, y1, x2, y2)
StrokeLine(c) ==
    LET v == ctx[c].m_context
    IN  Dispatched("StrokeLine", c, NULL, NULL,
                   Visit(v, <<Call(v.value, "StrokeLine", NULL)>>,
                            <<Call(v.value, "DrawLine", NULL)>>),
                   Void)

\* StrokeLines(n, beginPoints, endPoints): n separate lines on a wxDC.
StrokeLinesPairs(c, n) ==
    LET v == ctx[c].m_context
    IN  Dispatched("StrokeLines", c, NULL, n,
                   Visit(v, <<Call(v.value, "StrokeLines", n)>>,
                            [i \in 1..n |-> Call(v.value, "DrawLine", i - 1)]),
                   Void)

\* StrokeLines(n, points): a polyline, n - 1 lines on a wxDC when n > 1.
StrokeLinesPoly(c, n) ==
    LET v == ctx[c].m_context
    IN  Dispatched("StrokeLines", c, NULL, n,
                   Visit(v, <<Call(v.value, "StrokeLines", n)>>,
                            IF n > 1
                            THEN [i \in 1..(n - 1) |-> Call(v.value, "DrawLine", i - 1)]
                            ELSE << >>),
                   Void)

\* Scale(xScale, yScale): nothing on a wxDC.
Scale(c) ==
    LET v == ctx[c].m_context
    IN  Dispatched("Scale", c, NULL, NULL,
                   Visit(v, <<Call(v.value, "Scale", NULL)>>, << >>),
                   Void)

\* Flush that lets go of the backend once it is flushed.
FlushUnbinds(c) ==
    LET v == ctx[c].m_context
    IN  /\ ctx[c].alive
        /\ last' = [op |-> "Flush", ctx |-> c, path |-> NULL, arg |-> NULL]
        /\ calls' = Visit(v, <<Call(v.value, "Flush", NULL)>>, << >>)
        /\ ret' = Void
        /\ ctx' = [ctx EXCEPT ![c].m_context = Monostate]
        /\ UNCHANGED <<heap, paths>>

\* Flush(): nothing on a wxDC.
Flush(c) ==
    LET v == ctx[c].m_context
    IN  Dispatched("Flush", c, NULL, NULL,
                   Visit(v, <<Call(v.value, "Flush", NULL)>>, << >>),
                   Void)

\* GetSize(): (0, 0) without a backend, else what the backend reports.
GetSize(c) ==
    LET v == ctx[c].m_context
    IN  Dispatched("GetSize", c, NULL, NULL,
                   Visit(v, <<Call(v.value, "GetSize", NULL)>>,
                            <<Call(v.value, "GetSize", NULL)>>),
                   Returns("wxSize", IF IsValid(ctx[c]) THEN "size of " \o v.value ELSE "0x0"))

\* The modes of wxAntialiasMode handed to SetAntialiasMode and reported by a
\* backend.
wxANTIALIAS_NONE == "wxANTIALIAS_NONE"
wxANTIALIAS_DEFAULT == "wxANTIALIAS_DEFAULT"
AntialiasMode == {wxANTIALIAS_NONE, wxANTIALIAS_DEFAULT}

\* SetAntialiasMode that hands the mode to a wxDC as well and reports what
\* the surface answers.
SetAntialiasModeOnDC(c, mode) ==
    \E answer \in BOOLEAN :
        LET v == ctx[c].m_context
        IN  Dispatched("SetAntialiasMode", c, NULL, mode,
                       Visit(v, <<Call(v.value, "SetAntialiasMode", mode)>>,
                                <<Call(v.value, "SetAntialiasMode", mode)>>),
                       Returns("bool", IF v.index # 0 /\ v.value # NULL
                                       THEN answer ELSE FALSE))

\* SetAntialiasMode(mode): what the wxGraphicsContext answers; false without
\* one.
SetAntialiasMode(c, mode) ==
    \E answer \in BOOLEAN :
        LET v == ctx[c].m_context
        IN  Dispatched("SetAntialiasMode", c, NULL, mode,
                       Visit(v, <<Call(v.value, "SetAntialiasMode", mode)>>, << >>),
                       Returns("bool", IF v.index = 1 /\ v.value # NULL
                                       THEN answer ELSE FALSE))

\* GetAntialiasMode(): the mode the wxGraphicsContext reports;
\* wxANTIALIAS_DEFAULT without one.
GetAntialiasMode(c) ==
    \E reported \in AntialiasMode :
        LET v == ctx[c].m_context
        IN  Dispatched("GetAntialiasMode", c, NULL, NULL,
                       Visit(v, <<Call(v.value, "GetAntialiasMode", NULL)>>, << >>),
                       Returns("wxAntialiasMode", IF v.index = 1 /\ v.value # NULL
                                                  THEN reported ELSE wxANTIALIAS_DEFAULT))

\* What a draw call hands back: nothing, or the std::bad_alloc thrown by the
\* walk of DrawPathOnDC, which no caller on the way catches.
Thrown == Returns("throw", "std::bad_alloc")
Outcome(v, thrownAt) ==
    IF v.index = 2 /\ v.value # NULL /\ thrownAt # 0 THEN Thrown ELSE Void

\* The exceptions offered to a draw call on binding v: those of the walk when
\* the binding is a wxDC, none otherwise.
Throwable(v, segments) ==
    IF v.index = 2 /\ v.value # NULL THEN ThrowPoints(segments) ELSE {0}

\* What the surface held when a draw call was made on binding v.
Held(v, tool) == IF v.index = 2 /\ v.value # NULL THEN tool ELSE NULL

\* DrawPath(fxpath)
DrawPath(c, p) ==
    \E thrownAt \in Throwable(ctx[c].m_context, paths[p].m_segments) :
        LET v == ctx[c].m_context
        IN  Dispatched("DrawPath", c, p, NULL,
                       Visit(v, <<Call(v.value, "DrawPath", paths[p].m_path)>>,
                                DrawPathOnDC(v.value, paths[p].m_segments, wxODDEVEN_RULE,
                                             thrownAt)),
                       Outcome(v, thrownAt))

\* FillPath that leaves the fill rule at its default.
FillPathDefaultRule(c, p, fillStyle) ==
    \E oldPen \in Pen, thrownAt \in Throwable(ctx[c].m_context, paths[p].m_segments) :
        LET v == ctx[c].m_context
        IN  Dispatched("FillPath", c, p, <<fillStyle, Held(v, oldPen)>>,
                       Visit(v, <<Call(v.value, "FillPath", <<paths[p].m_path, wxODDEVEN_RULE>>)>>,
                                FillPathOnDC(v.value, oldPen, paths[p].m_segments,
                                             wxODDEVEN_RULE, thrownAt)),
                       Outcome(v, thrownAt))

\* FillPath(fxpath, fillStyle)
FillPath(c, p, fillStyle) ==
    \E oldPen \in Pen, thrownAt \in Throwable(ctx[c].m_context, paths[p].m_segments) :
        LET v == ctx[c].m_context
        IN  Dispatched("FillPath", c, p, <<fillStyle, Held(v, oldPen)>>,
                       Visit(v, <<Call(v.value, "FillPath", <<paths[p].m_path, fillStyle>>)>>,
                                FillPathOnDC(v.value, oldPen, paths[p].m_segments,
                                             fillStyle, thrownAt)),
                       Outcome(v, thrownAt))

\* StrokePath(fxpath)
StrokePath(c, p) ==
    \E oldBrush \in Brush, thrownAt \in Throwable(ctx[c].m_context, paths[p].m_segments) :
        LET v == ctx[c].m_context
        IN  Dispatched("StrokePath", c, p, Held(v, oldBrush),
                       Visit(v, <<Call(v.value, "StrokePath", paths[p].m_path)>>,
                                StrokePathOnDC(v.value, oldBrush, paths[p].m_segments,
                                               thrownAt)),
                       Outcome(v, thrownAt))

\* CreatePath that never asks the backend: every path is tracking-only.
CreatePathTrackingOnly(c, p) ==
    /\ ctx[c].alive
    /\ paths' = [paths EXCEPT ![p] = PathCtor(NULL)]
    /\ last' = [op |-> "CreatePath", ctx |-> c, path |-> p, arg |-> NULL]
    /\ calls' = << >>
    /\ ret' = Returns("fxGraphicsPath", PathCtor(NULL))
    /\ UNCHANGED <<ctx, heap>>

\* fxGraphicsPath p = c.CreatePath();  (theApp.hpp:41)
CreatePath(c, p) ==
    LET v == ctx[c].m_context
        actualGC == IF v.index = 1 /\ v.value # NULL THEN v.value ELSE NULL
    IN  /\ ctx[c].alive
        /\ paths' = [paths EXCEPT ![p] = PathCtor(actualGC)]
        /\ last' = [op |-> "CreatePath", ctx |-> c, path |-> p, arg |-> NULL]
        /\ calls' = IF actualGC # NULL
                    THEN <<Call(actualGC, "CreatePath", NULL)>>
                    ELSE << >>
        /\ ret' = Returns("fxGraphicsPath", PathCtor(actualGC))
        /\ UNCHANGED <<ctx, heap>>

----------------------------------------------------------------------------
(* The context specification *)

\* How many lines a StrokeLines call is given.
LineCount == {0, 1, 3}

Init ==
    /\ ctx = [c \in Ctx |-> DefaultCtx]
    /\ heap = [g \in PromotedGC |-> NoBlock]
    /\ paths = [p \in PathVar |-> PathCtor(NULL)]
    /\ last = [op |-> "Init", ctx |-> NULL, path |-> NULL, arg |-> NULL]
    /\ calls = << >>
    /\ ret = Void

Next ==
    \/ \E c \in Ctx : BindNone(c)
    \/ \E c \in Ctx, gc \in CallerGC \cup {NULL} : BindGC(c, gc)
    \/ \E c \in Ctx, dc \in DC \cup {NULL} : BindDC(c, dc)
    \/ \E dst, src \in Ctx : Copy(dst, src)
    \/ \E c \in Ctx : Destroy(c)
    \/ \E c \in Ctx : SetFont(c)
    \/ \E c \in Ctx, brush \in Brush : SetBrush(c, brush)
    \/ \E c \in Ctx, pen \in Pen : SetPen(c, pen)
    \/ \E c \in Ctx : DrawRectangle(c)
    \/ \E c \in Ctx, rotated \in BOOLEAN : DrawText(c, rotated)
    \/ \E c \in Ctx : StrokeLine(c)
    \/ \E c \in Ctx, n \in LineCount : StrokeLinesPairs(c, n)
    \/ \E c \in Ctx, n \in LineCount : StrokeLinesPoly(c, n)
    \/ \E c \in Ctx : Scale(c)
    \/ \E c \in Ctx : Flush(c)
    \/ \E c \in Ctx : GetSize(c)
    \/ \E c \in Ctx, mode \in AntialiasMode : SetAntialiasMode(c, mode)
    \/ \E c \in Ctx : GetAntialiasMode(c)
    \/ \E c \in Ctx, p \in PathVar : DrawPath(c, p)
    \/ \E c \in Ctx, p \in PathVar, fillStyle \in FillMode : FillPath(c, p, fillStyle)
    \/ \E c \in Ctx, p \in PathVar : StrokePath(c, p)
    \/ \E c \in Ctx : CreatePath(c, "p")

Spec == Init /\ [][Next]_vars

----------------------------------------------------------------------------
(* fxGraphicsPath: segments and the native path *)

\* fxPathSegment {type, points, radius, startAngle, endAngle, clockwise}; an
\* aggregate initialiser leaves the members it does not name at their defaults.
Seg(type, points, radius, startAngle, endAngle, clockwise) ==
    [type |-> type, points |-> points, radius |-> radius,
     startAngle |-> startAngle, endAngle |-> endAngle, clockwise |-> clockwise]

\* What a wxGraphicsPath holds of one call made on it: the call, its point
\* arguments, its width and height, its radius along x and along y, its
\* angles and direction.
Elem(op, pts, ext, r, startAngle, endAngle, clockwise) ==
    [op |-> op, pts |-> pts, ext |-> ext, rx |-> r, ry |-> r,
     startAngle |-> startAngle, endAngle |-> endAngle, clockwise |-> clockwise]

\* The segments recorded in all path variables.
TotalSegments ==
    Len(paths["p"].m_segments) + Len(paths["q"].m_segments)

\* The number of segments the builder calls may record in all, and the
\* longest segment sequence AddPath may build.
MaxSegs == 4

\* What a builder call on path variable p does: "if (m_gc) m_path.<call>(...)",
\* then m_segments.push_back(seg).  A builder is offered while fewer than
\* MaxSegs segments are recorded.
Built(op, p, args, seg, elem) ==
    /\ paths' = [paths EXCEPT ![p] =
                    [m_gc |-> @.m_gc,
                     m_path |-> IF @.m_gc # NULL THEN Append(@.m_path, elem) ELSE @.m_path,
                     m_segments |-> Append(@.m_segments, seg)]]
    /\ calls' = IF paths[p].m_gc # NULL THEN <<Call("m_path", op, args)>> ELSE << >>
    /\ last' = [op |-> op, ctx |-> NULL, path |-> p, arg |-> args]
    /\ ret' = Void
    /\ UNCHANGED <<ctx, heap>>

MoveToPoint(p, x, y) ==
    /\ TotalSegments < MaxSegs
    /\ Built("MoveToPoint", p, <<x, y>>,
             Seg("MoveTo", <<<<x, y>>>>, 0, 0, 0, FALSE),
             Elem("MoveToPoint", <<<<x, y>>>>, <<0, 0>>, 0, 0, 0, FALSE))

AddLineToPoint(p, x, y) ==
    /\ TotalSegments < MaxSegs
    /\ Built("AddLineToPoint", p, <<x, y>>,
             Seg("LineTo", <<<<x, y>>>>, 0, 0, 0, FALSE),
             Elem("AddLineToPoint", <<<<x, y>>>>, <<0, 0>>, 0, 0, 0, FALSE))

AddCurveToPoint(p, cx1, cy1, cx2, cy2, x, y) ==
    /\ TotalSegments < MaxSegs
    /\ Built("AddCurveToPoint", p, <<cx1, cy1, cx2, cy2, x, y>>,
             Seg("CurveTo", <<<<cx1, cy1>>, <<cx2, cy2>>, <<x, y>>>>, 0, 0, 0, FALSE),
             Elem("AddCurveToPoint", <<<<cx1, cy1>>, <<cx2, cy2>>, <<x, y>>>>, <<0, 0>>,
                  0, 0, 0, FALSE))

\* AddQuadCurveToPoint recording the end point before the control point.
AddQuadCurveToPointSwapped(p, cx, cy, x, y) ==
    /\ TotalSegments < MaxSegs
    /\ Built("AddQuadCurveToPoint", p, <<cx, cy, x, y>>,
             Seg("QuadCurveTo", <<<<x, y>>, <<cx, cy>>>>, 0, 0, 0, FALSE),
             Elem("AddQuadCurveToPoint", <<<<cx, cy>>, <<x, y>>>>, <<0, 0>>, 0, 0, 0, FALSE))

AddQuadCurveToPoint(p, cx, cy, x, y) ==
    /\ TotalSegments < MaxSegs
    /\ Built("AddQuadCurveToPoint", p, <<cx, cy, x, y>>,
             Seg("QuadCurveTo", <<<<cx, cy>>, <<x, y>>>>, 0, 0, 0, FALSE),
             Elem("AddQuadCurveToPoint", <<<<cx, cy>>, <<x, y>>>>, <<0, 0>>, 0, 0, 0, FALSE))

AddArc(p, x, y, r, startAngle, endAngle, clockwise) ==
    /\ TotalSegments < MaxSegs
    /\ Built("AddArc", p, <<x, y, r, startAngle, endAngle, clockwise>>,
             Seg("Arc", <<<<x, y>>>>, r, startAngle, endAngle, clockwise),
             Elem("AddArc", <<<<x, y>>>>, <<0, 0>>, r, startAngle, endAngle, clockwise))

AddArcToPoint(p, x1, y1, x2, y2, r) ==
    /\ TotalSegments < MaxSegs
    /\ Built("AddArcToPoint", p, <<x1, y1, x2, y2, r>>,
             Seg("ArcTo", <<<<x1, y1>>, <<x2, y2>>>>, r, 0, 0, FALSE),
             Elem("AddArcToPoint", <<<<x1, y1>>, <<x2, y2>>>>, <<0, 0>>, r, 0, 0, FALSE))

\* Stored as an ellipse with centre and radius.
AddCircle(p, x, y, r) ==
    /\ TotalSegments < MaxSegs
    /\ Built("AddCircle", p, <<x, y, r>>,
             Seg("Ellipse", <<<<x, y>>>>, r, 0, 0, FALSE),
             Elem("AddCircle", <<<<x, y>>>>, <<0, 0>>, r, 0, 0, FALSE))

\* AddEllipse recording its width as a radius, as AddCircle does.
AddEllipseWithRadius(p, x, y, w, h) ==
    /\ TotalSegments < MaxSegs
    /\ Built("AddEllipse", p, <<x, y, w, h>>,
             Seg("Ellipse", <<<<x, y>>, <<x + w, y + h>>>>, w, 0, 0, FALSE),
             Elem("AddEllipse", <<<<x, y>>>>, <<w, h>>, 0, 0, 0, FALSE))

AddEllipse(p, x, y, w, h) ==
    /\ TotalSegments < MaxSegs
    /\ Built("AddEllipse", p, <<x, y, w, h>>,
             Seg("Ellipse", <<<<x, y>>, <<x + w, y + h>>>>, 0, 0, 0, FALSE),
             Elem("AddEllipse", <<<<x, y>>>>, <<w, h>>, 0, 0, 0, FALSE))

AddRectangle(p, x, y, w, h) ==
    /\ TotalSegments < MaxSegs
    /\ Built("AddRectangle", p, <<x, y, w, h>>,
             Seg("Rectangle", <<<<x, y>>, <<x + w, y + h>>>>, 0, 0, 0, FALSE),
             Elem("AddRectangle", <<<<x, y>>>>, <<w, h>>, 0, 0, 0, FALSE))

AddRoundedRectangle(p, x, y, w, h, radius) ==
    /\ TotalSegments < MaxSegs
    /\ Built("AddRoundedRectangle", p, <<x, y, w, h, radius>>,
             Seg("RoundedRectangle", <<<<x, y>>, <<x + w, y + h>>>>, radius, 0, 0, FALSE),
             Elem("AddRoundedRectangle", <<<<x, y>>>>, <<w, h>>, radius, 0, 0, FALSE))

CloseSubpath(p) ==
    /\ TotalSegments < MaxSegs
    /\ Built("CloseSubpath", p, << >>,
             Seg("Close", << >>, 0, 0, 0, FALSE),
             Elem("CloseSubpath", << >>, <<0, 0>>, 0, 0, 0, FALSE))

\* AddPath merging the native paths whenever this path has one, whatever
\* graphics context the other path belongs to.
AddPathAlwaysMerges(this, other) ==
    LET t == paths[this]
        o == paths[other]
        merge == t.m_gc # NULL
    IN  /\ this # other
        /\ Len(t.m_segments) + Len(o.m_segments) <= MaxSegs
        /\ paths' = [paths EXCEPT ![this] =
                        [m_gc |-> t.m_gc,
                         m_path |-> IF merge THEN t.m_path \o o.m_path ELSE t.m_path,
                         m_segments |-> t.m_segments \o o.m_segments]]
        /\ calls' = IF merge THEN <<Call("m_path", "AddPath", o.m_path)>> ELSE << >>
        /\ last' = [op |-> "AddPath", ctx |-> NULL, path |-> this, arg |-> other]
        /\ ret' = Void
        /\ UNCHANGED <<ctx, heap>>

\* this.AddPath(other), for two different path objects.
AddPath(this, other) ==
    LET t == paths[this]
        o == paths[other]
        merge == t.m_gc # NULL /\ (o.m_gc = t.m_gc \/ o.m_gc = NULL)
    IN  /\ this # other
        /\ Len(t.m_segments) + Len(o.m_segments) <= MaxSegs
        /\ paths' = [paths EXCEPT ![this] =
                        [m_gc |-> t.m_gc,
                         m_path |-> IF merge THEN t.m_path \o o.m_path ELSE t.m_path,
                         m_segments |-> t.m_segments \o o.m_segments]]
        /\ calls' = IF merge THEN <<Call("m_path", "AddPath", o.m_path)>> ELSE << >>
        /\ last' = [op |-> "AddPath", ctx |-> NULL, path |-> this, arg |-> other]
        /\ ret' = Void
        /\ UNCHANGED <<ctx, heap>>

----------------------------------------------------------------------------
(* fxGraphicsPath: Transform *)

\* wxGraphicsMatrix::TransformPoint(&x, &y) for the matrix
\* (a, b, c, d, tx, ty): x' = a x + c y + tx, y' = b x + d y + ty.
TransformPoint(m, pt) ==
    <<m.a * pt[1] + m.c * pt[2] + m.tx, m.b * pt[1] + m.d * pt[2] + m.ty>>

\* The loop of Transform over seg.points: the points are mapped, the other
\* members are left as they are.
TransformSegment(m, seg) ==
    [seg EXCEPT !.points = [i \in 1..Len(seg.points) |-> TransformPoint(m, seg.points[i])]]

\* m_path.Transform(matrix) on one element of the native path, for a matrix
\* that scales and translates (b = c = 0): points are mapped, widths, heights
\* and radii are scaled.
TransformElem(m, e) ==
    [e EXCEPT !.pts = [i \in 1..Len(e.pts) |-> TransformPoint(m, e.pts[i])],
              !.ext = <<m.a * e.ext[1], m.d * e.ext[2]>>,
              !.rx = m.a * e.rx,
              !.ry = m.d * e.ry]

\* The largest coordinate magnitude of a path handed to Transform.
MaxCoord == 2

Abs(n) == IF n < 0 THEN -n ELSE n

\* Every recorded point of a segment sequence, in order.
RECURSIVE AllPoints(_)
AllPoints(segments) ==
    IF segments = << >> THEN << >>
    ELSE Head(segments).points \o AllPoints(Tail(segments))

\* No coordinate of the segments is beyond MaxCoord.
WithinCoord(segments) ==
    \A i \in 1..Len(AllPoints(segments)) :
        /\ Abs(AllPoints(segments)[i][1]) <= MaxCoord
        /\ Abs(AllPoints(segments)[i][2]) <= MaxCoord

\* Transform(matrix)
Transform(p, m) ==
    LET t == paths[p]
        segs == [i \in 1..Len(t.m_segments) |-> TransformSegment(m, t.m_segments[i])]
    IN  /\ paths' = [paths EXCEPT ![p] =
                        [m_gc |-> t.m_gc,
                         m_path |-> IF t.m_gc # NULL
                                    THEN [i \in 1..Len(t.m_path) |-> TransformElem(m, t.m_path[i])]
                                    ELSE t.m_path,
                         m_segments |-> segs]]
        /\ calls' = IF t.m_gc # NULL THEN <<Call("m_path", "Transform", m)>> ELSE << >>
        /\ last' = [op |-> "Transform", ctx |-> NULL, path |-> p, arg |-> m]
        /\ ret' = Void
        /\ UNCHANGED <<ctx, heap>>

----------------------------------------------------------------------------
(* fxGraphicsPath: GetBox *)

\* The initial values of minx, miny (Sentinel) and maxx, maxy (-Sentinel) in
\* ComputeSegmentsBoundingBox.
Sentinel == 1000000000

wxRect2DDouble(x, y, w, h) == [m_x |-> x, m_y |-> y, m_width |-> w, m_height |-> h]

\* The loops of ComputeSegmentsBoundingBox over the points pts, from the
\* running minima and maxima acc.
RECURSIVE ScanPoints(_, _)
ScanPoints(pts, acc) ==
    IF pts = << >> THEN acc
    ELSE LET pt == Head(pts)
         IN  ScanPoints(Tail(pts),
                        [minx |-> IF pt[1] < acc.minx THEN pt[1] ELSE acc.minx,
                         maxx |-> IF pt[1] > acc.maxx THEN pt[1] ELSE acc.maxx,
                         miny |-> IF pt[2] < acc.miny THEN pt[2] ELSE acc.miny,
                         maxy |-> IF pt[2] > acc.maxy THEN pt[2] ELSE acc.maxy])

ComputeSegmentsBoundingBox(segments) ==
    IF segments = << >>
    THEN wxRect2DDouble(0, 0, 0, 0)
    ELSE LET b == ScanPoints(AllPoints(segments),
                             [minx |-> Sentinel, miny |-> Sentinel,
                              maxx |-> -Sentinel, maxy |-> -Sentinel])
         IN  wxRect2DDouble(b.minx, b.miny, b.maxx - b.minx, b.maxy - b.miny)

\* GetBox(): the native path's box when there is a native path, else the box
\* of the recorded points.
GetBox(p) ==
    /\ ret' = IF paths[p].m_gc # NULL
              THEN Returns("m_path.GetBox", paths[p].m_path)
              ELSE Returns("wxRect2DDouble",
                           ComputeSegmentsBoundingBox(paths[p].m_segments))
    /\ calls' = IF paths[p].m_gc # NULL THEN <<Call("m_path", "GetBox", NULL)>> ELSE << >>
    /\ last' = [op |-> "GetBox", ctx |-> NULL, path |-> p, arg |-> NULL]
    /\ UNCHANGED <<ctx, heap, paths>>

----------------------------------------------------------------------------
(* The path specification *)

\* A coordinate beyond the sentinels of ComputeSegmentsBoundingBox.
Far == 2 * Sentinel

\* The matrices handed to Transform: a translation, a scaling, and both.
Matrix ==
    {[a |-> 1, b |-> 0, c |-> 0, d |-> 1, tx |-> 3, ty |-> -4],
     [a |-> 2, b |-> 0, c |-> 0, d |-> 2, tx |-> 0, ty |-> 0],
     [a |-> 2, b |-> 0, c |-> 0, d |-> 3, tx |-> 3, ty |-> 4]}

\* Two paths are constructed, fxGraphicsPath() or fxGraphicsPath(gc): p on
\* graphics context gcA or on none, q on gcA, on gcB or on none.
InitPath ==
    /\ ctx = [c \in Ctx |-> DefaultCtx]
    /\ heap = [g \in PromotedGC |-> NoBlock]
    /\ \E gp \in {"gcA", NULL}, gq \in CallerGC \cup {NULL} :
            paths = [v \in PathVar |-> IF v = "p" THEN PathCtor(gp) ELSE PathCtor(gq)]
    /\ last = [op |-> "Init", ctx |-> NULL, path |-> NULL, arg |-> NULL]
    /\ calls = << >>
    /\ ret = Void

\* The number of segments the two paths of the path specification may hold
\* in all.
MaxPathSegs == 2

\* A builder call is offered while the two paths hold fewer than MaxPathSegs
\* segments, AddPath while its result is no longer than that.
PathRoom == TotalSegments < MaxPathSegs
JoinRoom(this, other) ==
    Len(paths[this].m_segments) + Len(paths[other].m_segments) <= MaxPathSegs

NextPath ==
    \/ \E p \in PathVar, pt \in {<<1, 2>>, <<Far, 0>>} :
            PathRoom /\ MoveToPoint(p, pt[1], pt[2])
    \/ \E p \in PathVar : PathRoom /\ AddLineToPoint(p, 2, 0)
    \/ \E p \in PathVar : PathRoom /\ AddCurveToPoint(p, 0, 1, 1, 2, 2, 1)
    \/ \E p \in PathVar : PathRoom /\ AddQuadCurveToPoint(p, 1, 0, 2, 2)
    \/ \E p \in PathVar : PathRoom /\ AddArc(p, 1, 1, 1, 1, 2, TRUE)
    \/ \E p \in PathVar : PathRoom /\ AddArcToPoint(p, 0, 2, 2, 2, 1)
    \/ \E p \in PathVar : PathRoom /\ AddCircle(p, 1, 1, 1)
    \/ \E p \in PathVar : PathRoom /\ AddEllipse(p, 0, 1, 2, 1)
    \/ \E p \in PathVar : PathRoom /\ AddRectangle(p, 1, 0, 1, 2)
    \/ \E p \in PathVar : PathRoom /\ AddRoundedRectangle(p, 0, 0, 2, 2, 1)
    \/ \E p \in PathVar : PathRoom /\ CloseSubpath(p)
    \/ \E this, other \in PathVar : JoinRoom(this, other) /\ AddPath(this, other)
    \/ \E p \in PathVar, m \in Matrix :
            WithinCoord(paths[p].m_segments) /\ Transform(p, m)
    \/ \E p \in PathVar : GetBox(p)

SpecPath == InitPath /\ [][NextPath]_vars

----------------------------------------------------------------------------
(* fxGraphicsPath: GetCurrentPoint and Contains *)

\* GetCurrentPoint that takes the first point of the last segment.
GetCurrentPointFirst(p) ==
    LET segs == paths[p].m_segments
    IN  /\ ret' = IF paths[p].m_gc # NULL
                  THEN Returns("m_path.GetCurrentPoint", paths[p].m_path)
                  ELSE Returns("wxPoint2DDouble",
                               IF segs # << >> /\ segs[Len(segs)].points # << >>
                               THEN segs[Len(segs)].points[1]
                               ELSE <<0, 0>>)
        /\ calls' = IF paths[p].m_gc # NULL
                    THEN <<Call("m_path", "GetCurrentPoint", NULL)>>
                    ELSE << >>
        /\ last' = [op |-> "GetCurrentPoint", ctx |-> NULL, path |-> p, arg |-> NULL]
        /\ UNCHANGED <<ctx, heap, paths>>

\* GetCurrentPoint(): the native path's current point when there is a native
\* path, else m_segments.back().points.back() when both exist, else {0, 0}.
GetCurrentPoint(p) ==
    LET segs == paths[p].m_segments
    IN  /\ ret' = IF paths[p].m_gc # NULL
                  THEN Returns("m_path.GetCurrentPoint", paths[p].m_path)
                  ELSE Returns("wxPoint2DDouble",
                               IF segs # << >> /\ segs[Len(segs)].points # << >>
                               THEN segs[Len(segs)].points[Len(segs[Len(segs)].points)]
                               ELSE <<0, 0>>)
        /\ calls' = IF paths[p].m_gc # NULL
                    THEN <<Call("m_path", "GetCurrentPoint", NULL)>>
                    ELSE << >>
        /\ last' = [op |-> "GetCurrentPoint", ctx |-> NULL, path |-> p, arg |-> NULL]
        /\ UNCHANGED <<ctx, heap, paths>>

\* Contains that tests the point against the box of the recorded points when
\* there is no native path.
ContainsInBox(p, pt, fillStyle) ==
    LET box == ComputeSegmentsBoundingBox(paths[p].m_segments)
    IN  /\ ret' = IF paths[p].m_gc # NULL
                  THEN Returns("m_path.Contains", <<paths[p].m_path, pt, fillStyle>>)
                  ELSE Returns("bool", /\ box.m_x <= pt[1]
                                       /\ pt[1] <= box.m_x + box.m_width
                                       /\ box.m_y <= pt[2]
                                       /\ pt[2] <= box.m_y + box.m_height)
        /\ calls' = IF paths[p].m_gc # NULL
                    THEN <<Call("m_path", "Contains", <<pt, fillStyle>>)>>
                    ELSE << >>
        /\ last' = [op |-> "Contains", ctx |-> NULL, path |-> p, arg |-> <<pt, fillStyle>>]
        /\ UNCHANGED <<ctx, heap, paths>>

\* Contains(pt, fillStyle): what the native path answers when there is one,
\* else false.
Contains(p, pt, fillStyle) ==
    /\ ret' = IF paths[p].m_gc # NULL
              THEN Returns("m_path.Contains", <<paths[p].m_path, pt, fillStyle>>)
              ELSE Returns("bool", FALSE)
    /\ calls' = IF paths[p].m_gc # NULL
                THEN <<Call("m_path", "Contains", <<pt, fillStyle>>)>>
                ELSE << >>
    /\ last' = [op |-> "Contains", ctx |-> NULL, path |-> p, arg |-> <<pt, fillStyle>>]
    /\ UNCHANGED <<ctx, heap, paths>>

----------------------------------------------------------------------------
(* The query specification: one path, built, translated and queried *)

\* The largest coordinate magnitude of a path the query specification hands
\* to Transform.
MaxQueryCoord == 4

WithinQueryCoord(segments) ==
    \A i \in 1..Len(AllPoints(segments)) :
        /\ Abs(AllPoints(segments)[i][1]) <= MaxQueryCoord
        /\ Abs(AllPoints(segments)[i][2]) <= MaxQueryCoord

\* Pure translations: a short one, and one as long as the sentinels of
\* ComputeSegmentsBoundingBox are far out.
Translation ==
    {[a |-> 1, b |-> 0, c |-> 0, d |-> 1, tx |-> 3, ty |-> -4],
     [a |-> 1, b |-> 0, c |-> 0, d |-> 1, tx |-> Sentinel, ty |-> 0]}

\* The points handed to Contains: one inside the triangle (0,0), (4,0), (0,4),
\* the square from (0,0) to (2,2) and the circle around (1,1), and one outside
\* them all.
QueryPoint == {<<1, 1>>, <<9, 9>>}

\* Path p is constructed, fxGraphicsPath() or fxGraphicsPath(gcA).
InitQuery ==
    /\ ctx = [c \in Ctx |-> DefaultCtx]
    /\ heap = [g \in PromotedGC |-> NoBlock]
    /\ \E gp \in {"gcA", NULL} :
            paths = [v \in PathVar |-> IF v = "p" THEN PathCtor(gp) ELSE PathCtor(NULL)]
    /\ last = [op |-> "Init", ctx |-> NULL, path |-> NULL, arg |-> NULL]
    /\ calls = << >>
    /\ ret = Void

NextQuery ==
    \/ MoveToPoint("p", 0, 0)
    \/ \E pt \in {<<4, 0>>, <<0, 4>>} : AddLineToPoint("p", pt[1], pt[2])
    \/ AddQuadCurveToPoint("p", 1, 0, 2, 2)
    \/ AddCircle("p", 1, 1, 1)
    \/ AddRectangle("p", 0, 0, 2, 2)
    \/ CloseSubpath("p")
    \/ \E m \in Translation :
            WithinQueryCoord(paths["p"].m_segments) /\ Transform("p", m)
    \/ GetBox("p")
    \/ GetCurrentPoint("p")
    \/ \E pt \in QueryPoint, fillStyle \in FillMode : Contains("p", pt, fillStyle)

SpecQuery == InitQuery /\ [][NextQuery]_vars

----------------------------------------------------------------------------
(* The drawing specification: a path is created, built and drawn *)

\* The number of segments other than Close the drawn path may hold; a Close
\* may follow them.
MaxShape == 3

RenderRoom == Len(paths["p"].m_segments) < MaxShape

\* ctxA is bound to an SVG surface, which is not promoted (theApp.hpp:80); ctxB
\* is bound to a graphics context of the caller (theApp.hpp:87) or to nothing;
\* path p is what ctxB.CreatePath() returned (theApp.hpp:41).
InitRender ==
    /\ \E gc \in {"gcA", NULL} :
            /\ ctx = [c \in Ctx |-> IF c = "ctxA" THEN CtxFromDC("svgDC", NULL)
                                    ELSE CtxFromGC(gc)]
            /\ paths = [p \in PathVar |-> IF p = "p" THEN PathCtor(gc) ELSE PathCtor(NULL)]
    /\ heap = [g \in PromotedGC |-> NoBlock]
    /\ last = [op |-> "Init", ctx |-> NULL, path |-> NULL, arg |-> NULL]
    /\ calls = << >>
    /\ ret = Void

NextRender ==
    \/ RenderRoom /\ MoveToPoint("p", 0, 0)
    \/ \E pt \in {<<10, 0>>, <<10, 10>>} : RenderRoom /\ AddLineToPoint("p", pt[1], pt[2])
    \/ RenderRoom /\ AddQuadCurveToPoint("p", 5, 10, 10, 0)
    \/ RenderRoom /\ AddRectangle("p", 0, 0, 10, 10)
    \/ RenderRoom /\ AddRoundedRectangle("p", 0, 0, 10, 10, 2)
    \/ CloseSubpath("p")
    \/ \E c \in Ctx : DrawPath(c, "p")
    \/ \E c \in Ctx, fillStyle \in FillMode : FillPath(c, "p", fillStyle)
    \/ \E c \in Ctx : StrokePath(c, "p")

SpecRender == InitRender /\ [][NextRender]_vars

----------------------------------------------------------------------------
(* The approximators on their own: inputs are drawn, then the function the
   input is for is applied to them. *)

\* Control points, step counts, centres, radii and angles (in twenty-fourths
\* of a turn: 0, pi, 2 pi) handed to the approximators.
SamplePoint == {<<0, 0>>, <<5, 10>>, <<10, 0>>, <<-3, 7>>}
StepChoice == {1, 2, 3, 4, 6, 12}
ArcCentre == {<<0, 0>>, <<5, 5>>}
ArcRadius == {1, 5}
ArcAngle == {0, M_PI, 2 * M_PI}

QuadInput ==
    [f : {"ApproxQuadBezier"}, p0 : SamplePoint, c : SamplePoint, p1 : SamplePoint,
     steps : StepChoice]
CubicInput ==
    [f : {"ApproxCubicBezier"}, p0 : SamplePoint, c1 : SamplePoint, c2 : SamplePoint,
     p1 : SamplePoint, steps : StepChoice]
ArcInput ==
    [f : {"ApproxArc"}, c : ArcCentre, r : ArcRadius, angleStart : ArcAngle,
     angleEnd : ArcAngle, clockwise : BOOLEAN, steps : StepChoice]

PointVector(pts) == Returns("std::vector<wxPoint2DDouble>", pts)

InitApprox ==
    /\ ctx = [c \in Ctx |-> DefaultCtx]
    /\ heap = [g \in PromotedGC |-> NoBlock]
    /\ paths = [p \in PathVar |-> PathCtor(NULL)]
    /\ \E input \in QuadInput \cup CubicInput \cup ArcInput :
            last = [op |-> "Init", ctx |-> NULL, path |-> NULL, arg |-> input]
    /\ calls = << >>
    /\ ret = Void

\* The call of the approximator named op on the drawn input: its vector is
\* returned, nothing else changes.
Approximated(op, pts) ==
    /\ last.arg.f = op
    /\ last' = [last EXCEPT !.op = op]
    /\ ret' = PointVector(pts)
    /\ UNCHANGED <<ctx, heap, paths, calls>>

CallApproxQuadBezier ==
    /\ last.arg.f = "ApproxQuadBezier"
    /\ Approximated("ApproxQuadBezier",
            ApproxQuadBezier(ToMilli(last.arg.p0), ToMilli(last.arg.c),
                             ToMilli(last.arg.p1), last.arg.steps))

CallApproxCubicBezier ==
    /\ last.arg.f = "ApproxCubicBezier"
    /\ Approximated("ApproxCubicBezier",
            ApproxCubicBezier(ToMilli(last.arg.p0), ToMilli(last.arg.c1),
                              ToMilli(last.arg.c2), ToMilli(last.arg.p1),
                              last.arg.steps))

CallApproxArc ==
    /\ last.arg.f = "ApproxArc"
    /\ Approximated("ApproxArc",
            ApproxArc(ToMilli(last.arg.c), last.arg.r, last.arg.angleStart,
                      last.arg.angleEnd, last.arg.clockwise, last.arg.steps))

NextApprox ==
    \/ CallApproxQuadBezier
    \/ CallApproxCubicBezier
    \/ CallApproxArc

SpecApprox == InitApprox /\ [][NextApprox]_vars

----------------------------------------------------------------------------
(* The fallback on its own: a symbolic path is recorded, then drawn on a
   context bound to a wxDC. *)

\* The longest segment sequence drawn.
MaxWalk == 3

\* Segments as the builders record them, one of every kind and both ellipses.
RecordedSegment ==
    {Seg("MoveTo", <<(<<0, 0>>)>>, 0, 0, 0, FALSE),
     Seg("LineTo", <<(<<10, 0>>)>>, 0, 0, 0, FALSE),
     Seg("QuadCurveTo", <<(<<5, 10>>), (<<10, 0>>)>>, 0, 0, 0, FALSE),
     Seg("CurveTo", <<(<<0, 5>>), (<<5, 10>>), (<<10, 5>>)>>, 0, 0, 0, FALSE),
     Seg("Arc", <<(<<5, 5>>)>>, 5, 0, 1, FALSE),
     Seg("ArcTo", <<(<<10, 0>>), (<<10, 10>>)>>, 2, 0, 0, FALSE),
     Seg("Rectangle", <<(<<0, 0>>), (<<10, 10>>)>>, 0, 0, 0, FALSE),
     Seg("RoundedRectangle", <<(<<0, 0>>), (<<10, 10>>)>>, 2, 0, 0, FALSE),
     Seg("Ellipse", <<(<<5, 5>>)>>, 5, 0, 0, FALSE),
     Seg("Ellipse", <<(<<0, 0>>), (<<10, 10>>)>>, 0, 0, 0, FALSE),
     Seg("Close", << >>, 0, 0, 0, FALSE)}

RecordedPath == UNION {[1..n -> RecordedSegment] : n \in 0..MaxWalk}

InitWalk ==
    /\ ctx = [c \in Ctx |-> IF c = "ctxA" THEN CtxFromDC("svgDC", NULL) ELSE DefaultCtx]
    /\ heap = [g \in PromotedGC |-> NoBlock]
    /\ \E segments \in RecordedPath :
            paths = [p \in PathVar |->
                        IF p = "p" THEN [PathCtor(NULL) EXCEPT !.m_segments = segments]
                        ELSE PathCtor(NULL)]
    /\ last = [op |-> "Init", ctx |-> NULL, path |-> NULL, arg |-> NULL]
    /\ calls = << >>
    /\ ret = Void

NextWalk ==
    \/ DrawPath("ctxA", "p")
    \/ \E fillStyle \in FillMode : FillPath("ctxA", "p", fillStyle)
    \/ StrokePath("ctxA", "p")

SpecWalk == InitWalk /\ [][NextWalk]_vars

----------------------------------------------------------------------------
(* DrawPathOnDC on its own: it is handed a segment sequence in which segments
   may carry fewer points than their kind needs. *)

\* The number of points the case of a kind tests for; an Ellipse is drawn
\* with one or with two.
EnoughPoints(seg) ==
    LET n == Len(seg.points)
    IN  CASE seg.type \in {"MoveTo", "LineTo", "Arc"} -> n >= 1
          [] seg.type \in {"QuadCurveTo", "ArcTo", "Rectangle", "RoundedRectangle"} -> n >= 2
          [] seg.type = "CurveTo" -> n >= 3
          [] seg.type = "Ellipse" -> n \in {1, 2}
          [] OTHER -> TRUE

\* Segments short of points, of every kind, and two complete ones to give a
\* walk a cursor and pending points.
HandedSegment ==
    {Seg("MoveTo", <<(<<0, 0>>)>>, 0, 0, 0, FALSE),
     Seg("LineTo", <<(<<10, 0>>)>>, 0, 0, 0, FALSE),
     Seg("MoveTo", << >>, 0, 0, 0, FALSE),
     Seg("LineTo", << >>, 0, 0, 0, FALSE),
     Seg("QuadCurveTo", <<(<<5, 10>>)>>, 0, 0, 0, FALSE),
     Seg("CurveTo", <<(<<0, 5>>), (<<5, 10>>)>>, 0, 0, 0, FALSE),
     Seg("Arc", << >>, 5, 0, 1, FALSE),
     Seg("ArcTo", <<(<<10, 0>>)>>, 2, 0, 0, FALSE),
     Seg("Rectangle", << >>, 0, 0, 0, FALSE),
     Seg("Rectangle", <<(<<0, 0>>)>>, 0, 0, 0, FALSE),
     Seg("RoundedRectangle", <<(<<0, 0>>)>>, 2, 0, 0, FALSE),
     Seg("Ellipse", << >>, 5, 0, 0, FALSE),
     Seg("Ellipse", <<(<<0, 0>>), (<<10, 10>>), (<<5, 5>>)>>, 0, 0, 0, FALSE)}

HandedPath == UNION {[1..n -> HandedSegment] : n \in 0..MaxWalk}

\* The Rectangle turns that read points[0] or points[1] beyond the end of
\* seg.points.
ReadsBeyond(segments) ==
    {k \in 1..Len(segments) :
        segments[k].type = "Rectangle" /\ Len(segments[k].points) < 2}

\* What a read beyond the end of a vector gives: a fault, or whatever lies
\* there.
StrayPoint == {<<0, 0>>, <<7, -3>>}
StrayRead ==
    [fault : {TRUE}, first : {<<0, 0>>}, second : {<<0, 0>>}]
    \cup [fault : {FALSE}, first : StrayPoint, second : StrayPoint]

\* segments with what the Rectangle turns read in place of the points they
\* lack.
AsRead(segments, read) ==
    [k \in 1..Len(segments) |->
        IF k \in ReadsBeyond(segments)
        THEN [segments[k] EXCEPT
                !.points = IF @ = << >> THEN <<read.first, read.second>>
                           ELSE <<@[1], read.second>>]
        ELSE segments[k]]

\* The process ends in the out-of-range read.
Faulted == Returns("fault", "read beyond seg.points")

\* DrawPathOnDC(&svgDC, p, fillMode) called on the path as handed over.  With
\* no Rectangle short of points the walk is the one of DrawPathOnDC; with one,
\* the behaviour is undefined: the process faults in that turn, or the turn
\* draws the rectangle of what it read.
CallDrawPathOnDC(fillMode) ==
    LET segments == paths["p"].m_segments
    IN  /\ last' = [op |-> "DrawPathOnDC", ctx |-> NULL, path |-> "p", arg |-> fillMode]
        /\ IF ReadsBeyond(segments) = {}
           THEN \E thrownAt \in ThrowPoints(segments) :
                    /\ calls' = DrawPathOnDC("svgDC", segments, fillMode, thrownAt)
                    /\ ret' = IF thrownAt = 0 THEN Void ELSE Thrown
           ELSE \E read \in StrayRead :
                    LET asRead == AsRead(segments, read)
                        first == CHOOSE k \in ReadsBeyond(segments) :
                                    \A j \in ReadsBeyond(segments) : k <= j
                    IN  IF read.fault
                        THEN /\ calls' = AbortedWalk("svgDC", asRead, fillMode, first)
                             /\ ret' = Faulted
                        ELSE \E thrownAt \in ThrowPoints(asRead) :
                                /\ calls' = DrawPathOnDC("svgDC", asRead, fillMode, thrownAt)
                                /\ ret' = IF thrownAt = 0 THEN Void ELSE Thrown
        /\ UNCHANGED <<ctx, heap, paths>>

InitHanded ==
    /\ ctx = [c \in Ctx |-> IF c = "ctxA" THEN CtxFromDC("svgDC", NULL) ELSE DefaultCtx]
    /\ heap = [g \in PromotedGC |-> NoBlock]
    /\ \E segments \in HandedPath :
            paths = [p \in PathVar |->
                        IF p = "p" THEN [PathCtor(NULL) EXCEPT !.m_segments = segments]
                        ELSE PathCtor(NULL)]
    /\ last = [op |-> "Init", ctx |-> NULL, path |-> NULL, arg |-> NULL]
    /\ calls = << >>
    /\ ret = Void

NextHanded == \E fillMode \in FillMode : CallDrawPathOnDC(fillMode)

SpecHanded == InitHanded /\ [][NextHanded]_vars

----------------------------------------------------------------------------
(* Properties of the context specification *)

\* The calls C1 names.
DrawingCall ==
    {"SetPen", "SetBrush", "SetFont", "DrawRectangle", "DrawText", "StrokeLine",
     "StrokeLines", "DrawPath", "FillPath", "StrokePath", "Scale", "Flush"}

\* The steps that construct, assign or destroy a context.
BindingCall == {"BindNone", "BindGC", "BindDC", "Copy", "Destroy"}

\* The step binds its context to no surface: default construction, or a null
\* wxGraphicsContext* or wxDC*.
BoundToNothing(l) ==
    \/ l.op = "BindNone"
    \/ l.op = "BindGC" /\ l.arg = NULL
    \/ l.op = "BindDC" /\ l.arg[1] = NULL

\* C1: a context that is default-constructed or constructed from a null
\* wxGraphicsContext* or wxDC* is Unbound (IsValid() is false), and every
\* drawing call made on an Unbound context issues no backend call and leaves
\* the context Unbound.
C1_UnboundIsSilent ==
    /\ \A c \in Ctx : ~IsValid(ctx[c])
    /\ [][/\ BoundToNothing(last') => ~IsValid(ctx'[last'.ctx])
          /\ \A c \in Ctx :
                (/\ ctx[c].alive
                 /\ ~IsValid(ctx[c])
                 /\ last'.op \in DrawingCall
                 /\ last'.ctx = c)
                => (calls' = << >> /\ ~IsValid(ctx'[c]))]_vars

\* A fill was asked of a context that was bound to a null wxDC*.
C1_Witness ==
    /\ last.op = "FillPath"
    /\ ctx[last.ctx].alive
    /\ ~IsValid(ctx[last.ctx])
    /\ calls = << >>

\* C2: a context has exactly one binding out of Unbound, native and
\* raster-only (IsValid() holds exactly when one of IsGC() and IsDC() holds,
\* and they never hold together), and no setter, draw, query, Scale, Flush or
\* CreatePath call changes the binding of any context.
C2_OneBinding ==
    /\ [](\A c \in Ctx :
            /\ IsValid(ctx[c]) <=> (IsGC(ctx[c]) \/ IsDC(ctx[c]))
            /\ ~(IsGC(ctx[c]) /\ IsDC(ctx[c]))
            /\ ctx[c].m_context.index \in {0, 1, 2})
    /\ [][last'.op \notin BindingCall =>
            \A c \in Ctx :
                /\ ctx'[c].m_context = ctx[c].m_context
                /\ ctx'[c].alive = ctx[c].alive]_vars

\* A raster-only context has just served a Flush and is raster-only still.
C2_Witness ==
    /\ last.op = "Flush"
    /\ IsDC(ctx[last.ctx])
    /\ ~IsGC(ctx[last.ctx])

\* C3: binding to a non-null wxDC gives a native binding that owns a newly
\* created wxGraphicsContext exactly when the DC is a window, memory or printer
\* DC and wxGraphicsContext::Create returned a backend; otherwise the binding
\* is raster-only on that DC and the context owns nothing.  A context that owns
\* a backend is always bound natively to that backend.
C3_PromotionPolicy ==
    /\ [](\A c \in Ctx :
            ctx[c].m_ownedGC # NULL => ctx[c].m_context = HoldsGC(ctx[c].m_ownedGC))
    /\ [][(last'.op = "BindDC" /\ last'.arg[1] # NULL) =>
            LET c == last'.ctx
                dc == last'.arg[1]
                created == last'.arg[2]
            IN  IF dc \in {"windowDC", "memoryDC", "printerDC"} /\ created # NULL
                THEN /\ IsGC(ctx'[c])
                     /\ ctx'[c].m_context.value = created
                     /\ ctx'[c].m_ownedGC = created
                     /\ ~heap[created].live
                     /\ heap'[created].live
                ELSE /\ IsDC(ctx'[c])
                     /\ ctx'[c].m_context.value = dc
                     /\ ctx'[c].m_ownedGC = NULL]_vars

\* A printer DC was promoted: the context owns the backend created for it.
C3_Witness ==
    /\ last.op = "BindDC"
    /\ last.arg[1] = "printerDC"
    /\ ctx[last.ctx].m_ownedGC # NULL
    /\ IsGC(ctx[last.ctx])

\* The contexts that own promoted backend g.
Owners(g) == {c \in Ctx : ctx[c].m_ownedGC = g}

\* C4, as claimed: a backend created by promotion is owned by at most one
\* context at a time, also after a context is copied or assigned.
C4_NeverShared ==
    \A g \in PromotedGC : Cardinality(Owners(g)) <= 1

\* C4, amended: a backend created by promotion is owned jointly by every copy
\* of the context that created it (use_count counts them), each owner is bound
\* natively to it, and it is alive exactly as long as some context owns it: it
\* is released when its last owner is re-bound or destroyed, not before.
C4_SharedOwnership ==
    \A g \in PromotedGC :
        /\ heap[g].use_count = Cardinality(Owners(g))
        /\ heap[g].live <=> Owners(g) # {}
        /\ \A c \in Owners(g) : ctx[c].alive /\ ctx[c].m_context = HoldsGC(g)

\* One owner of a shared backend was destroyed and the backend lives on in the
\* other.
C4_Witness ==
    /\ last.op = "Destroy"
    /\ \E g \in PromotedGC : heap[g].live /\ Cardinality(Owners(g)) = 1

\* C5: CreatePath() returns a path with no segments, bound to the context's
\* backend when the context is native (GetContext() is that backend) and
\* symbolic-only (GetContext() is null) when it is raster-only or Unbound; it
\* can be called on every context and changes none.
C5_CreatePath ==
    /\ [](\A c \in Ctx : ctx[c].alive => ENABLED CreatePath(c, "p"))
    /\ [][last'.op = "CreatePath" =>
            LET c == last'.ctx
            IN  /\ ret'.val.m_segments = << >>
                /\ ret'.val.m_gc = (IF IsGC(ctx[c]) THEN ctx[c].m_context.value ELSE NULL)
                /\ (IsDC(ctx[c]) \/ ~IsValid(ctx[c])) => ret'.val.m_gc = NULL
                /\ paths'["p"] = ret'.val
                /\ ctx' = ctx
                /\ heap' = heap]_vars

\* A path was created on a context that owns a promoted backend.
C5_Witness ==
    /\ last.op = "CreatePath"
    /\ ctx[last.ctx].m_ownedGC # NULL
    /\ ret.val.m_gc = ctx[last.ctx].m_ownedGC
    /\ ret.val.m_segments = << >>

\* C17: on a raster-only or Unbound context SetAntialiasMode(mode) returns
\* false ("unsupported") for every mode, reaches no surface and changes
\* nothing, and GetAntialiasMode() reports wxANTIALIAS_DEFAULT, whatever calls
\* came before.
C17_AntialiasUnsupported ==
    [][(last'.ctx \in Ctx /\ last'.op \in {"SetAntialiasMode", "GetAntialiasMode"}) =>
        LET c == last'.ctx
        IN  ~IsGC(ctx[c]) =>
                /\ calls' = << >>
                /\ ctx' = ctx /\ heap' = heap /\ paths' = paths
                /\ last'.op = "SetAntialiasMode" => ret' = Returns("bool", FALSE)
                /\ last'.op = "GetAntialiasMode" =>
                        ret' = Returns("wxAntialiasMode", wxANTIALIAS_DEFAULT)]_vars

\* A context bound to the SVG surface, which cannot be promoted, was asked for
\* the default antialiasing mode and answered "unsupported".
C17_Witness ==
    /\ last.op = "SetAntialiasMode"
    /\ last.arg = wxANTIALIAS_DEFAULT
    /\ ctx[last.ctx].m_context = HoldsDC("svgDC")
    /\ ret = Returns("bool", FALSE)

----------------------------------------------------------------------------
(* Properties of the path specification *)

BuilderCall ==
    {"MoveToPoint", "AddLineToPoint", "AddQuadCurveToPoint", "AddCurveToPoint",
     "AddArc", "AddArcToPoint", "AddCircle", "AddEllipse", "AddRectangle",
     "AddRoundedRectangle", "CloseSubpath"}

\* The segment kind each builder call stands for.
KindOf(op) ==
    CASE op = "MoveToPoint" -> "MoveTo"
      [] op = "AddLineToPoint" -> "LineTo"
      [] op = "AddQuadCurveToPoint" -> "QuadCurveTo"
      [] op = "AddCurveToPoint" -> "CurveTo"
      [] op = "AddArc" -> "Arc"
      [] op = "AddArcToPoint" -> "ArcTo"
      [] op = "AddCircle" -> "Ellipse"
      [] op = "AddEllipse" -> "Ellipse"
      [] op = "AddRectangle" -> "Rectangle"
      [] op = "AddRoundedRectangle" -> "RoundedRectangle"
      [] op = "CloseSubpath" -> "Close"

\* The segment a builder call with arguments a is to record.
Recorded(op, a) ==
    CASE op = "MoveToPoint" ->
            Seg("MoveTo", <<<<a[1], a[2]>>>>, 0, 0, 0, FALSE)
      [] op = "AddLineToPoint" ->
            Seg("LineTo", <<<<a[1], a[2]>>>>, 0, 0, 0, FALSE)
      [] op = "AddQuadCurveToPoint" ->
            Seg("QuadCurveTo", <<<<a[1], a[2]>>, <<a[3], a[4]>>>>, 0, 0, 0, FALSE)
      [] op = "AddCurveToPoint" ->
            Seg("CurveTo", <<<<a[1], a[2]>>, <<a[3], a[4]>>, <<a[5], a[6]>>>>, 0, 0, 0, FALSE)
      [] op = "AddArc" ->
            Seg("Arc", <<<<a[1], a[2]>>>>, a[3], a[4], a[5], a[6])
      [] op = "AddArcToPoint" ->
            Seg("ArcTo", <<<<a[1], a[2]>>, <<a[3], a[4]>>>>, a[5], 0, 0, FALSE)
      [] op = "AddCircle" ->
            Seg("Ellipse", <<<<a[1], a[2]>>>>, a[3], 0, 0, FALSE)
      [] op = "AddEllipse" ->
            Seg("Ellipse", <<<<a[1], a[2]>>, <<a[1] + a[3], a[2] + a[4]>>>>, 0, 0, 0, FALSE)
      [] op = "AddRectangle" ->
            Seg("Rectangle", <<<<a[1], a[2]>>, <<a[1] + a[3], a[2] + a[4]>>>>, 0, 0, 0, FALSE)
      [] op = "AddRoundedRectangle" ->
            Seg("RoundedRectangle", <<<<a[1], a[2]>>, <<a[1] + a[3], a[2] + a[4]>>>>,
                a[5], 0, 0, FALSE)
      [] op = "CloseSubpath" ->
            Seg("Close", << >>, 0, 0, 0, FALSE)

\* The geometry a recorded segment describes: its kind, its points, its
\* radius (the same along x and y), its angles and direction.
SegGeometry(seg) ==
    [kind |-> seg.type, pts |-> seg.points, rx |-> seg.radius, ry |-> seg.radius,
     startAngle |-> seg.startAngle, endAngle |-> seg.endAngle,
     clockwise |-> seg.clockwise]

\* The geometry an element of the native path describes, in the same terms: a
\* box is given by its corner and the opposite corner.
ElemGeometry(e) ==
    [kind |-> KindOf(e.op),
     pts |-> IF e.op \in {"AddEllipse", "AddRectangle", "AddRoundedRectangle"}
             THEN <<e.pts[1], <<e.pts[1][1] + e.ext[1], e.pts[1][2] + e.ext[2]>>>>
             ELSE e.pts,
     rx |-> e.rx, ry |-> e.ry,
     startAngle |-> e.startAngle, endAngle |-> e.endAngle, clockwise |-> e.clockwise]

\* The native path and the segment sequence list the same operations, with
\* the same geometry, in the same order.
Consistent(path) ==
    /\ Len(path.m_path) = Len(path.m_segments)
    /\ \A i \in 1..Len(path.m_segments) :
            ElemGeometry(path.m_path[i]) = SegGeometry(path.m_segments[i])

\* C6: every builder call appends exactly one segment of the matching kind,
\* carrying the call's arguments, and leaves the earlier segments and the other
\* path as they were; with a native path the same call is issued to it exactly
\* once (and none without), so that a native path that listed the same
\* operations as the segment sequence still does.
C6_BuilderAppends ==
    [][last'.op \in BuilderCall =>
        LET p == last'.path
            old == paths[p]
            new == paths'[p]
        IN  /\ new.m_segments = Append(old.m_segments, Recorded(last'.op, last'.arg))
            /\ new.m_segments[Len(new.m_segments)].type = KindOf(last'.op)
            /\ SubSeq(new.m_segments, 1, Len(old.m_segments)) = old.m_segments
            /\ new.m_gc = old.m_gc
            /\ \A o \in PathVar \ {p} : paths'[o] = paths[o]
            /\ IF old.m_gc # NULL
               THEN /\ calls' = <<Call("m_path", last'.op, last'.arg)>>
                    /\ Len(new.m_path) = Len(old.m_path) + 1
                    /\ SubSeq(new.m_path, 1, Len(old.m_path)) = old.m_path
                    /\ new.m_path[Len(new.m_path)].op = last'.op
                    /\ Consistent(old) => Consistent(new)
               ELSE /\ calls' = << >>
                    /\ new.m_path = old.m_path]_vars

\* A rounded rectangle was added after another segment to a path that has a
\* native path, and both list two operations.
C6_Witness ==
    /\ last.op = "AddRoundedRectangle"
    /\ paths[last.path].m_gc # NULL
    /\ Len(paths[last.path].m_segments) = 2
    /\ Len(paths[last.path].m_path) = 2
    /\ Consistent(paths[last.path])

\* The fields a segment of each kind carries.
FieldsFitKind(seg) ==
    LET n == Len(seg.points)
        noAngles == seg.startAngle = 0 /\ seg.endAngle = 0 /\ seg.clockwise = FALSE
    IN  CASE seg.type \in {"MoveTo", "LineTo"} -> n = 1 /\ seg.radius = 0 /\ noAngles
          [] seg.type = "Arc" -> n = 1
          [] seg.type = "QuadCurveTo" -> n = 2 /\ seg.radius = 0 /\ noAngles
          [] seg.type \in {"Rectangle"} -> n = 2 /\ seg.radius = 0 /\ noAngles
          [] seg.type \in {"ArcTo", "RoundedRectangle"} -> n = 2 /\ noAngles
          [] seg.type = "CurveTo" -> n = 3 /\ seg.radius = 0 /\ noAngles
          [] seg.type = "Ellipse" -> /\ n \in {1, 2}
                                     /\ n = 2 => seg.radius = 0
                                     /\ noAngles
          [] seg.type = "Close" -> n = 0 /\ seg.radius = 0 /\ noAngles
          [] OTHER -> FALSE

\* C7: in every path reachable through builder calls, AddPath and Transform,
\* the kind of a segment fixes its fields: 1 point for MoveTo, LineTo and Arc,
\* 2 for QuadCurveTo, ArcTo, Rectangle and RoundedRectangle, 3 for CurveTo, 1
\* or 2 for Ellipse, 0 for Close; a radius only on Arc, ArcTo, RoundedRectangle
\* and circle-form Ellipse; angles and direction only on Arc; zero or false
\* otherwise.
C7_FieldsFitKind ==
    \A p \in PathVar :
        \A i \in 1..Len(paths[p].m_segments) : FieldsFitKind(paths[p].m_segments[i])

\* A path holding an arc and a box-form ellipse, appended to and then
\* transformed.
C7_Witness ==
    /\ last.op = "Transform"
    /\ Len(paths[last.path].m_segments) = 2
    /\ \E i, j \in 1..2 :
            /\ paths[last.path].m_segments[i].type = "Arc"
            /\ paths[last.path].m_segments[j].type = "Ellipse"
            /\ Len(paths[last.path].m_segments[j].points) = 2

\* C8: AddPath(other) makes this path's segments its previous segments
\* followed by other's, in their order, and leaves other unchanged, whatever
\* the two paths are bound to; the native paths are merged (one native AddPath
\* call) exactly when this path has a graphics context and other has the same
\* one or none, and otherwise no native path is touched.
C8_AddPath ==
    [][last'.op = "AddPath" =>
        LET this == paths[last'.path]
            other == paths[last'.arg]
            new == paths'[last'.path]
        IN  /\ new.m_segments = this.m_segments \o other.m_segments
            /\ paths'[last'.arg] = other
            /\ new.m_gc = this.m_gc
            /\ IF this.m_gc # NULL /\ (other.m_gc = this.m_gc \/ other.m_gc = NULL)
               THEN /\ new.m_path = this.m_path \o other.m_path
                    /\ calls' = <<Call("m_path", "AddPath", other.m_path)>>
               ELSE /\ new.m_path = this.m_path
                    /\ calls' = << >>]_vars

\* A path of another graphics context was appended to a non-empty path: the
\* segments are joined, the native path is not.
C8_Witness ==
    /\ last.op = "AddPath"
    /\ paths[last.path].m_gc = "gcA"
    /\ paths[last.arg].m_gc = "gcB"
    /\ Len(paths[last.arg].m_segments) = 1
    /\ Len(paths[last.path].m_segments) = 2
    /\ Len(paths[last.path].m_path) = 1

\* C9, as claimed: Transform maps every recorded point by the matrix and
\* applies the matrix to the native path, so that a path whose segments and
\* native path describe the same geometry (radii included) still does after
\* the transform.
C9_TransformKeepsConsistent ==
    [][last'.op = "Transform" =>
        LET old == paths[last'.path]
            new == paths'[last'.path]
        IN  /\ Len(new.m_segments) = Len(old.m_segments)
            /\ \A i \in 1..Len(old.m_segments) :
                    new.m_segments[i].points =
                        [k \in 1..Len(old.m_segments[i].points) |->
                            TransformPoint(last'.arg, old.m_segments[i].points[k])]
            /\ (old.m_gc # NULL /\ Consistent(old)) => Consistent(new)]_vars

\* The box of the recorded points pts: origin at the least x and y, size the
\* greatest minus the least.
Least(S) == CHOOSE n \in S : \A k \in S : n <= k
Greatest(S) == CHOOSE n \in S : \A k \in S : n >= k
BoxOf(pts) ==
    LET xs == {pts[i][1] : i \in 1..Len(pts)}
        ys == {pts[i][2] : i \in 1..Len(pts)}
    IN  wxRect2DDouble(Least(xs), Least(ys),
                       Greatest(xs) - Least(xs), Greatest(ys) - Least(ys))

\* C10, as claimed: GetBox() of a symbolic-only path is the zero box when the
\* path has no segments, and otherwise the box from the least to the greatest
\* x and y over every recorded point, which holds every recorded point.
C10_GetBox ==
    (last.op = "GetBox" /\ paths[last.path].m_gc = NULL) =>
        LET segs == paths[last.path].m_segments
            pts == AllPoints(segs)
        IN  /\ segs = << >> => ret.val = wxRect2DDouble(0, 0, 0, 0)
            /\ pts # << >> =>
                /\ ret.val = BoxOf(pts)
                /\ \A i \in 1..Len(pts) :
                        /\ ret.val.m_x <= pts[i][1] /\ pts[i][1] <= ret.val.m_x + ret.val.m_width
                        /\ ret.val.m_y <= pts[i][2] /\ pts[i][2] <= ret.val.m_y + ret.val.m_height

----------------------------------------------------------------------------
(* Properties of the query specification *)

IsTranslation(m) == m.a = 1 /\ m.b = 0 /\ m.c = 0 /\ m.d = 1

\* C11, as claimed: for every symbolic-only path (the empty path and paths
\* whose segments carry no points included) and every translation (dx, dy),
\* the box GetBox() gives after Transform by the translation is the box it
\* gave before with its origin moved by (dx, dy) and its size unchanged.
C11_TranslationEquivariant ==
    [][(/\ last'.op = "Transform"
        /\ IsTranslation(last'.arg)
        /\ paths[last'.path].m_gc = NULL) =>
        LET before == ComputeSegmentsBoundingBox(paths[last'.path].m_segments)
            after == ComputeSegmentsBoundingBox(paths'[last'.path].m_segments)
        IN  after = wxRect2DDouble(before.m_x + last'.arg.tx, before.m_y + last'.arg.ty,
                                   before.m_width, before.m_height)]_vars

\* C12, as claimed: GetCurrentPoint() of a symbolic-only path is the origin
\* when the path is empty and the last point of the last segment after any
\* builder calls.
C12_LastPointOfLastSegment ==
    (last.op = "GetCurrentPoint" /\ paths[last.path].m_gc = NULL) =>
        LET segs == paths[last.path].m_segments
            pts == segs[Len(segs)].points
        IN  IF segs = << >>
            THEN ret.val = <<0, 0>>
            ELSE pts # << >> /\ ret.val = pts[Len(pts)]

\* C12, amended: GetCurrentPoint() of a symbolic-only path is the last point
\* of the last segment when that segment carries points, and the origin when
\* the path is empty or its last segment carries no point (a Close).
C12_CurrentPoint ==
    (last.op = "GetCurrentPoint" /\ paths[last.path].m_gc = NULL) =>
        LET segs == paths[last.path].m_segments
        IN  /\ ret.kind = "wxPoint2DDouble"
            /\ calls = << >>
            /\ IF segs = << >>
               THEN ret.val = <<0, 0>>
               ELSE LET pts == segs[Len(segs)].points
                    IN  IF pts = << >>
                        THEN segs[Len(segs)].type = "Close" /\ ret.val = <<0, 0>>
                        ELSE ret.val = pts[Len(pts)]

\* The current point was asked of a symbolic-only path that ends in a Close
\* after a line to (4, 0): the answer is the origin.
C12_Witness ==
    /\ last.op = "GetCurrentPoint"
    /\ paths[last.path].m_gc = NULL
    /\ Len(paths[last.path].m_segments) >= 2
    /\ LET segs == paths[last.path].m_segments
       IN  /\ segs[Len(segs)].type = "Close"
           /\ segs[Len(segs) - 1].type = "LineTo"
           /\ segs[Len(segs) - 1].points = <<<<4, 0>>>>
    /\ ret.val = <<0, 0>>

\* C13: on a path without a native path Contains(point, fillRule) answers
\* false for every point, fill rule and segment sequence (also for a point
\* inside a recorded closed polygon), asks no native path and leaves the path
\* as it was.
C13_ContainsIsFalse ==
    [][(last'.op = "Contains" /\ paths[last'.path].m_gc = NULL) =>
        /\ ret' = Returns("bool", FALSE)
        /\ calls' = << >>
        /\ paths' = paths]_vars

\* Contains was asked, with the winding rule, about (1, 1) on the closed
\* triangle (0,0), (4,0), (0,4), which holds that point.
C13_Witness ==
    /\ last.op = "Contains"
    /\ last.arg = <<<<1, 1>>, wxWINDING_RULE>>
    /\ paths[last.path].m_gc = NULL
    /\ Len(paths[last.path].m_segments) = 4
    /\ LET segs == paths[last.path].m_segments
       IN  /\ segs[1].type = "MoveTo" /\ segs[1].points = <<<<0, 0>>>>
           /\ segs[2].type = "LineTo" /\ segs[2].points = <<<<4, 0>>>>
           /\ segs[3].type = "LineTo" /\ segs[3].points = <<<<0, 4>>>>
           /\ segs[4].type = "Close"
    /\ ret.val = FALSE

----------------------------------------------------------------------------
(* Properties of the drawing specification *)

\* The three path-drawing calls.
PathCall == {"DrawPath", "FillPath", "StrokePath"}

\* The calls on a wxDC that draw something, as opposed to reading or setting
\* its pen and brush.
IsPrimitive(k) == k.op \in {"DrawLines", "DrawLine", "DrawPolygon", "DrawRectangle", "DrawEllipse"}
Primitives(seq) == SelectSeq(seq, IsPrimitive)

\* C14: DrawPath, FillPath and StrokePath dispatch on the binding alone.  On
\* a wxGraphicsContext they issue exactly one native call of their own name
\* with the path's native path (FillPath with its fill rule unchanged) and
\* nothing else; on a wxDC they issue no native call, every call goes to the
\* bound wxDC, the primitives of a call that returns are those of the walk
\* over the path's segments, and every polygon of FillPath carries the fill
\* rule of the call; on an unbound context they do nothing.  The path is left
\* as it was.
C14_Dispatch ==
    [][last'.op \in PathCall =>
        LET v == ctx[last'.ctx].m_context
            path == paths[last'.path]
            rule == IF last'.op = "FillPath" THEN last'.arg[1] ELSE wxODDEVEN_RULE
        IN  /\ paths' = paths
            /\ v.index = 1 =>
                    calls' = <<Call(v.value, last'.op,
                                    IF last'.op = "FillPath"
                                    THEN <<path.m_path, last'.arg[1]>>
                                    ELSE path.m_path)>>
            /\ v.index = 2 =>
                    /\ \A i \in 1..Len(calls') :
                            /\ calls'[i].tgt = v.value
                            /\ calls'[i].op \notin PathCall
                            /\ calls'[i].op = "DrawPolygon" => calls'[i].arg[2] = rule
                    /\ ret' = Void =>
                            Primitives(calls') =
                                (IF path.m_segments = << >> THEN << >>
                                 ELSE RenderSegments(v.value, path.m_segments, rule))
            /\ v.index = 0 => calls' = << >>]_vars

\* FillPath with the winding rule has drawn, on the context bound to the SVG
\* wxDC, a path that holds a rounded rectangle: a polygon was emitted.
C14_Witness ==
    /\ last.op = "FillPath"
    /\ last.arg[1] = wxWINDING_RULE
    /\ ctx[last.ctx].m_context = HoldsDC("svgDC")
    /\ \E i \in 1..Len(paths[last.path].m_segments) :
            paths[last.path].m_segments[i].type = "RoundedRectangle"
    /\ \E i \in 1..Len(calls) : calls[i].op = "DrawPolygon"
    /\ ret = Void

\* The pen and brush of a wxDC after the calls seq were made on it in order,
\* starting from the pen and brush of surface.
RECURSIVE SurfaceAfter(_, _)
SurfaceAfter(surface, seq) ==
    IF seq = << >> THEN surface
    ELSE LET k == Head(seq)
             next == IF k.op = "SetPen" THEN [surface EXCEPT !.pen = k.arg]
                     ELSE IF k.op = "SetBrush" THEN [surface EXCEPT !.brush = k.arg]
                     ELSE surface
         IN  SurfaceAfter(next, Tail(seq))

\* Every primitive among the calls seq, made in order on a wxDC that starts
\* with the pen and brush of surface, is drawn with pen and brush.
DrawnWith(surface, seq, pen, brush) ==
    \A i \in 1..Len(seq) :
        IsPrimitive(seq[i]) =>
            SurfaceAfter(surface, SubSeq(seq, 1, i - 1)) = [pen |-> pen, brush |-> brush]

\* C15: on a context bound to a wxDC, when FillPath or StrokePath returns the
\* wxDC has the pen and brush it had when the call was made; every primitive
\* of FillPath is drawn with wxTRANSPARENT_PEN and the caller's brush, every
\* primitive of StrokePath with wxTRANSPARENT_BRUSH and the caller's pen.
C15_PenBrushRestored ==
    [][(/\ last'.op \in {"FillPath", "StrokePath"}
        /\ ctx[last'.ctx].m_context.index = 2
        /\ ret' = Void) =>
        IF last'.op = "FillPath"
        THEN \A brush \in Brush :
                LET before == [pen |-> last'.arg[2], brush |-> brush]
                IN  /\ SurfaceAfter(before, calls') = before
                    /\ DrawnWith(before, calls', "wxTRANSPARENT_PEN", brush)
        ELSE \A pen \in Pen :
                LET before == [pen |-> pen, brush |-> last'.arg]
                IN  /\ SurfaceAfter(before, calls') = before
                    /\ DrawnWith(before, calls', pen, "wxTRANSPARENT_BRUSH")]_vars

\* StrokePath has returned on the SVG wxDC, whose brush was the blue one,
\* after drawing an open polyline and a rectangle.
C15_Witness ==
    /\ last.op = "StrokePath"
    /\ last.arg = "wxBLUE_BRUSH"
    /\ ctx[last.ctx].m_context = HoldsDC("svgDC")
    /\ ret = Void
    /\ \E i \in 1..Len(calls) : calls[i].op = "DrawLines"
    /\ \E i \in 1..Len(calls) : calls[i].op = "DrawRectangle"
    /\ calls[Len(calls)] = Call("svgDC", "SetBrush", "wxBLUE_BRUSH")

\* C16, as claimed: when the walk started by FillPath or StrokePath on a
\* context bound to a wxDC is aborted before the end of the segment sequence,
\* the wxDC still gets its original pen (FillPath) or brush (StrokePath)
\* back.
C16_RestoredWhenAborted ==
    [][(/\ last'.op \in {"FillPath", "StrokePath"}
        /\ ctx[last'.ctx].m_context.index = 2
        /\ ret' = Thrown) =>
        IF last'.op = "FillPath"
        THEN \A brush \in Brush :
                LET before == [pen |-> last'.arg[2], brush |-> brush]
                IN  SurfaceAfter(before, calls') = before
        ELSE \A pen \in Pen :
                LET before == [pen |-> pen, brush |-> last'.arg]
                IN  SurfaceAfter(before, calls') = before]_vars

\* The fill rule DrawPathOnDC walks with in a draw step that leaves l in last.
RuleOf(l) == IF l.op = "FillPath" THEN l.arg[1] ELSE wxODDEVEN_RULE

\* The walk of DrawPathOnDC on dc after the first k of segments.
WalkAfter(dc, segments, fillMode, k) ==
    RenderLoop(dc, fillMode, WalkStart, SubSeq(segments, 1, k), 1)

\* seq begins with the calls of head.
StartsWith(seq, head) ==
    Len(head) <= Len(seq) /\ SubSeq(seq, 1, Len(head)) = head

\* The turns of a walk over segments that meet a Close.
CloseTurns(segments) == {k \in 1..Len(segments) : segments[k].type = "Close"}

\* The triangle MoveTo(0,0), LineTo(10,0), LineTo(10,10), Close.
IsTriangle(segments) ==
    /\ Len(segments) = 4
    /\ segments[1].type = "MoveTo" /\ segments[1].points = <<<<0, 0>>>>
    /\ segments[2].type = "LineTo" /\ segments[2].points = <<<<10, 0>>>>
    /\ segments[3].type = "LineTo" /\ segments[3].points = <<<<10, 10>>>>
    /\ segments[4].type = "Close"

\* FillPath with the winding rule of the triangle on a wxDC emits one
\* polygon with the triangle's vertices and the winding rule and no other
\* primitive.
TriangleFilled(l, v, segments, issued) ==
    (l.op = "FillPath" /\ l.arg[1] = wxWINDING_RULE /\ IsTriangle(segments)) =>
        Primitives(issued) =
            <<Call(v.value, "DrawPolygon",
                   <<(<<(<<0, 0>>), (<<10, 0>>), (<<10, 10>>)>>), wxWINDING_RULE>>)>>

\* C20, as claimed: a Close reached with a non-empty accumulated subpath
\* emits its points in recorded order as one closed figure and empties the
\* accumulator: one polygon with the fill rule of the call in FillPath and
\* DrawPath, a polyline plus a closing line from the last point back to the
\* first in StrokePath.
C20_CloseEmitsClosedFigure ==
    [][(/\ last'.op \in PathCall
        /\ ctx[last'.ctx].m_context.index = 2
        /\ ret' = Void) =>
        LET v == ctx[last'.ctx].m_context
            segments == paths[last'.path].m_segments
            rule == RuleOf(last')
        IN  /\ \A k \in CloseTurns(segments) :
                \A before \in {WalkAfter(v.value, segments, rule, k - 1)} :
                \A after \in {RenderSegment(v.value, rule, before, segments[k])} :
                \A sub \in {before.currentSubpath} :
                    sub # << >> =>
                        /\ after.currentSubpath = << >>
                        /\ after.drawn = before.drawn \o
                             (IF last'.op = "StrokePath"
                              THEN <<Call(v.value, "DrawLines", sub),
                                     Call(v.value, "DrawLine", <<sub[Len(sub)], sub[1]>>)>>
                              ELSE <<Call(v.value, "DrawPolygon", <<sub, rule>>)>>)
                        /\ StartsWith(Primitives(calls'), after.drawn)
            /\ TriangleFilled(last', v, segments, calls')]_vars

\* C20: a Close reached with a non-empty accumulated subpath emits its points
\* in recorded order as one DrawPolygon and empties the accumulator, in
\* FillPath, DrawPath and StrokePath alike; the polygon carries the fill rule
\* of the walk (that of the call in FillPath, odd-even otherwise).  FillPath
\* with the winding rule of MoveTo(0,0), LineTo(10,0), LineTo(10,10), Close
\* emits one polygon with those vertices and that rule and no other
\* primitive.
C20_CloseEmitsPolygon ==
    [][(/\ last'.op \in PathCall
        /\ ctx[last'.ctx].m_context.index = 2
        /\ ret' = Void) =>
        LET v == ctx[last'.ctx].m_context
            segments == paths[last'.path].m_segments
            rule == RuleOf(last')
        IN  /\ \A k \in CloseTurns(segments) :
                \A before \in {WalkAfter(v.value, segments, rule, k - 1)} :
                \A after \in {RenderSegment(v.value, rule, before, segments[k])} :
                \A sub \in {before.currentSubpath} :
                    sub # << >> =>
                        /\ after.currentSubpath = << >>
                        /\ after.drawn = Append(before.drawn,
                                Call(v.value, "DrawPolygon", <<sub, rule>>))
                        /\ StartsWith(Primitives(calls'), after.drawn)
            /\ TriangleFilled(last', v, segments, calls')]_vars

\* StrokePath has drawn the closed triangle on the SVG wxDC: one polygon
\* between the two SetBrush calls.
C20_Witness ==
    /\ last.op = "StrokePath"
    /\ ctx[last.ctx].m_context = HoldsDC("svgDC")
    /\ IsTriangle(paths[last.path].m_segments)
    /\ ret = Void
    /\ Primitives(calls) =
            <<Call("svgDC", "DrawPolygon",
                   <<(<<(<<0, 0>>), (<<10, 0>>), (<<10, 10>>)>>), wxODDEVEN_RULE>>)>>

----------------------------------------------------------------------------
(* Properties of the approximators *)

\* A sample in thousandths is the blend num / den cut to a whole number of
\* thousandths.
Sampled(sample, num, den) == Abs(sample * den - num) < den

\* C18: with steps = N >= 1 ApproxQuadBezier and ApproxCubicBezier return
\* N + 1 points, the i-th being the quadratic (cubic) Bernstein blend of the
\* control points at t = i / N; the first is the start point and the last
\* the end point, exactly; ApproxQuadBezier of (0,0), (5,10), (10,0) with 2
\* steps returns (0,0), (5,5), (10,0).
C18_BezierSamples ==
    /\ last.op = "ApproxQuadBezier" =>
        LET a == last.arg
            N == a.steps
            p0 == ToMilli(a.p0)
            c == ToMilli(a.c)
            p1 == ToMilli(a.p1)
            blend(i, k) == (N - i) * (N - i) * p0[k] + 2 * i * (N - i) * c[k]
                           + i * i * p1[k]
        IN  /\ Len(ret.val) = N + 1
            /\ ret.val[1] = p0
            /\ ret.val[N + 1] = p1
            /\ \A i \in 0..N : \A k \in 1..2 :
                    Sampled(ret.val[i + 1][k], blend(i, k), N * N)
            /\ (a.p0 = <<0, 0>> /\ a.c = <<5, 10>> /\ a.p1 = <<10, 0>> /\ N = 2) =>
                    ret.val = <<ToMilli(<<0, 0>>), ToMilli(<<5, 5>>), ToMilli(<<10, 0>>)>>
    /\ last.op = "ApproxCubicBezier" =>
        LET a == last.arg
            N == a.steps
            p0 == ToMilli(a.p0)
            c1 == ToMilli(a.c1)
            c2 == ToMilli(a.c2)
            p1 == ToMilli(a.p1)
            blend(i, k) == (N - i) * (N - i) * (N - i) * p0[k]
                           + 3 * i * (N - i) * (N - i) * c1[k]
                           + 3 * i * i * (N - i) * c2[k]
                           + i * i * i * p1[k]
        IN  /\ Len(ret.val) = N + 1
            /\ ret.val[1] = p0
            /\ ret.val[N + 1] = p1
            /\ \A i \in 0..N : \A k \in 1..2 :
                    Sampled(ret.val[i + 1][k], blend(i, k), N * N * N)

\* ApproxQuadBezier((0,0), (5,10), (10,0), 2) has returned.
C18_Witness ==
    /\ last.op = "ApproxQuadBezier"
    /\ last.arg.p0 = <<0, 0>> /\ last.arg.c = <<5, 10>> /\ last.arg.p1 = <<10, 0>>
    /\ last.arg.steps = 2
    /\ Len(ret.val) = 3

\* seq back to front.
Reverse(seq) == [k \in 1..Len(seq) |-> seq[Len(seq) - k + 1]]

\* The point of the circle of radius r around c (in thousandths) at angle.
OnCircle(c, r, angle) == <<c[1] + r * Cos(angle), c[2] + r * Sin(angle)>>

\* C19, as claimed: ApproxArc returns steps + 1 points at uniformly spaced
\* angles whose span from the first to the last has magnitude
\* |endAngle - startAngle| whatever clockwise is, and the call with
\* clockwise reversed returns the same points in reversed order.
C19_ArcReversal ==
    last.op = "ApproxArc" =>
        LET a == last.arg
            N == a.steps
            centre == ToMilli(a.c)
        IN  /\ Len(ret.val) = N + 1
            /\ \E first \in {a.angleStart, a.angleEnd}, span \in {a.angleEnd - a.angleStart,
                                                                  a.angleStart - a.angleEnd} :
                    \A i \in 0..N :
                        ret.val[i + 1] = OnCircle(centre, a.r, first + (i * span) \div N)
            /\ ret.val = Reverse(ApproxArc(centre, a.r, a.angleStart, a.angleEnd,
                                           ~a.clockwise, N))

----------------------------------------------------------------------------
(* Properties of the walk specification *)

\* A draw step on a context bound to a wxDC that has returned.
WalkReturned(l, r) ==
    /\ l.op \in PathCall
    /\ ctx[l.ctx].m_context.index = 2
    /\ r = Void

\* The calls of seq from the from-th on.
From(seq, from) == SubSeq(seq, from, Len(seq))

\* C21, as claimed: when the walk reaches the end of the segments with a
\* non-empty accumulated subpath, it flushes that subpath as an open
\* polyline, and in FillPath and DrawPath it also emits a polygon of the
\* same points with the fill rule of the call.
C21_OpenSubpathFilled ==
    [][WalkReturned(last', ret') =>
        LET dc == ctx[last'.ctx].m_context.value
            segments == paths[last'.path].m_segments
            rule == RuleOf(last')
        IN  \A end \in {WalkAfter(dc, segments, rule, Len(segments))} :
                end.currentSubpath # << >> =>
                    LET flush == From(Primitives(calls'), Len(end.drawn) + 1)
                    IN  /\ StartsWith(Primitives(calls'), end.drawn)
                        /\ \E i \in 1..Len(flush) :
                                flush[i] = Call(dc, "DrawLines", end.currentSubpath)
                        /\ last'.op \in {"FillPath", "DrawPath"} =>
                                \E i \in 1..Len(flush) :
                                    flush[i] = Call(dc, "DrawPolygon",
                                                    <<end.currentSubpath, rule>>)]_vars

\* The turns of a walk over segments whose segment is of one of the kinds.
TurnsOf(segments, kinds) == {k \in 1..Len(segments) : segments[k].type \in kinds}

\* How a draw mode draws the open subpath sub: stroke mode as a polyline,
\* fill and outline mode as a polyline and a polygon with the fill rule.
OpenFlush(op, dc, sub, rule) ==
    IF op = "StrokePath" THEN <<Call(dc, "DrawLines", sub)>>
    ELSE <<Call(dc, "DrawLines", sub), Call(dc, "DrawPolygon", <<sub, rule>>)>>

\* C22, as claimed: a MoveTo reached with a non-empty accumulated subpath
\* first draws that subpath in the draw mode of the call (outline, fill or
\* stroke), then clears the accumulator and starts a subpath whose only
\* point is the MoveTo point, the cursor being at that point; a MoveTo
\* reached with an empty accumulator emits nothing.
C22_MoveToFlushesInMode ==
    [][WalkReturned(last', ret') =>
        LET dc == ctx[last'.ctx].m_context.value
            segments == paths[last'.path].m_segments
            rule == RuleOf(last')
        IN  \A k \in TurnsOf(segments, {"MoveTo"}) :
            \A before \in {WalkAfter(dc, segments, rule, k - 1)} :
            \A after \in {RenderSegment(dc, rule, before, segments[k])} :
                /\ after.drawn =
                        (IF before.currentSubpath # << >>
                         THEN before.drawn
                              \o OpenFlush(last'.op, dc, before.currentSubpath, rule)
                         ELSE before.drawn)
                /\ after.currentSubpath = <<segments[k].points[1]>>
                /\ after.lastPt = ToMilli(segments[k].points[1])
                /\ after.haveLastPt
                /\ StartsWith(Primitives(calls'), after.drawn)]_vars

\* The kinds of segment that give the walk a cursor.
CursorKinds == {"MoveTo", "LineTo", "Arc", "RoundedRectangle"}

\* The samples the approximator of a QuadCurveTo or CurveTo segment returns
\* from the cursor at, with 12 steps.
CurveSamples(at, seg) ==
    IF seg.type = "QuadCurveTo"
    THEN ApproxQuadBezier(at, ToMilli(seg.points[1]), ToMilli(seg.points[2]), 12)
    ELSE ApproxCubicBezier(at, ToMilli(seg.points[1]), ToMilli(seg.points[2]),
                           ToMilli(seg.points[3]), 12)

\* C23: a QuadCurveTo or CurveTo reached when a cursor exists (an earlier
\* MoveTo, LineTo, Arc or RoundedRectangle) is sampled from the cursor with
\* 12 steps; the 12 samples after the first are appended to the accumulated
\* subpath, the cursor moves to the end point of the segment and nothing is
\* drawn.  Reached without a cursor, it leaves the walk as it was.
C23_CurveAppendsSamples ==
    [][WalkReturned(last', ret') =>
        LET dc == ctx[last'.ctx].m_context.value
            segments == paths[last'.path].m_segments
            rule == RuleOf(last')
        IN  \A k \in TurnsOf(segments, {"QuadCurveTo", "CurveTo"}) :
            \A before \in {WalkAfter(dc, segments, rule, k - 1)} :
            \A after \in {RenderSegment(dc, rule, before, segments[k])} :
                IF \E j \in 1..(k - 1) : segments[j].type \in CursorKinds
                THEN \A samples \in {CurveSamples(before.lastPt, segments[k])} :
                        /\ Len(samples) = 13
                        /\ samples[1] = before.lastPt
                        /\ Len(after.currentSubpath) = Len(before.currentSubpath) + 12
                        /\ after.currentSubpath =
                                before.currentSubpath
                                \o [i \in 1..12 |-> wxPoint(samples[i + 1])]
                        /\ after.lastPt =
                                ToMilli(segments[k].points[Len(segments[k].points)])
                        /\ after.haveLastPt
                        /\ after.drawn = before.drawn
                ELSE after = before]_vars

\* StrokePath has returned after a walk that met a QuadCurveTo before any
\* cursor, then a MoveTo, then a CurveTo: one polyline of the MoveTo point and
\* the 12 samples.
C23_Witness ==
    /\ last.op = "StrokePath"
    /\ ctx[last.ctx].m_context = HoldsDC("svgDC")
    /\ ret = Void
    /\ LET segments == paths[last.path].m_segments
       IN  /\ Len(segments) = 3
           /\ segments[1].type = "QuadCurveTo"
           /\ segments[2].type = "MoveTo"
           /\ segments[3].type = "CurveTo"
    /\ Len(Primitives(calls)) = 1
    /\ Primitives(calls)[1].op = "DrawLines"
    /\ Len(Primitives(calls)[1].arg) = 13

\* The primitive of a Rectangle or Ellipse segment as the builders record
\* it: the rectangle between its two corners, the circle around its centre
\* or the ellipse in its box.
ShapePrimitive(dc, seg) ==
    LET box == <<seg.points[1][1], seg.points[1][2],
                 seg.points[2][1] - seg.points[1][1],
                 seg.points[2][2] - seg.points[1][2]>>
    IN  IF seg.type = "Rectangle" THEN Call(dc, "DrawRectangle", box)
        ELSE IF Len(seg.points) = 1
        THEN Call(dc, "DrawEllipse",
                  <<seg.points[1][1] - seg.radius, seg.points[1][2] - seg.radius,
                    2 * seg.radius, 2 * seg.radius>>)
        ELSE Call(dc, "DrawEllipse", box)

\* The points a DrawLines or DrawPolygon call hands to the wxDC.
PointsOf(k) ==
    IF k.op = "DrawLines" THEN k.arg
    ELSE IF k.op = "DrawPolygon" THEN k.arg[1]
    ELSE << >>

\* C25: a Rectangle or Ellipse segment is drawn as one DrawRectangle or
\* DrawEllipse in its own turn, whatever the accumulated subpath holds, and
\* leaves the accumulated subpath and the cursor as they were; the points
\* pending at that turn go to a polyline or polygon drawn after it.
C25_ShapeDrawnAtOnce ==
    [][WalkReturned(last', ret') =>
        LET dc == ctx[last'.ctx].m_context.value
            segments == paths[last'.path].m_segments
            rule == RuleOf(last')
            drawn == Primitives(calls')
        IN  \A k \in TurnsOf(segments, {"Rectangle", "Ellipse"}) :
            \A before \in {WalkAfter(dc, segments, rule, k - 1)} :
            \A after \in {RenderSegment(dc, rule, before, segments[k])} :
                /\ after.drawn = Append(before.drawn, ShapePrimitive(dc, segments[k]))
                /\ after.currentSubpath = before.currentSubpath
                /\ after.lastPt = before.lastPt
                /\ after.haveLastPt = before.haveLastPt
                /\ StartsWith(drawn, after.drawn)
                /\ before.currentSubpath # << >> =>
                        \E i \in (Len(after.drawn) + 1)..Len(drawn) :
                            StartsWith(PointsOf(drawn[i]), before.currentSubpath)]_vars

\* FillPath has returned after a walk over MoveTo, Rectangle, LineTo: the
\* rectangle first, then the polyline of the two points around it.
C25_Witness ==
    /\ last.op = "FillPath"
    /\ ctx[last.ctx].m_context = HoldsDC("svgDC")
    /\ ret = Void
    /\ LET segments == paths[last.path].m_segments
       IN  /\ Len(segments) = 3
           /\ segments[1].type = "MoveTo"
           /\ segments[2].type = "Rectangle"
           /\ segments[3].type = "LineTo"
    /\ Primitives(calls) =
            <<Call("svgDC", "DrawRectangle", <<0, 0, 10, 10>>),
              Call("svgDC", "DrawLines", <<(<<0, 0>>), (<<10, 0>>)>>)>>

\* The points of the calls seq, one call after the other.
RECURSIVE Flat(_)
Flat(seq) == IF seq = << >> THEN << >> ELSE PointsOf(Head(seq)) \o Flat(Tail(seq))

\* The points the turn for seg appends to the accumulated subpath of a walk
\* in state st: the point of a MoveTo or LineTo, the 12 samples of a curve
\* and the two points of an ArcTo when there is a cursor, the 13 samples of
\* an Arc.
Appended(st, seg) ==
    CASE seg.type \in {"MoveTo", "LineTo"} -> <<seg.points[1]>>
      [] seg.type \in {"QuadCurveTo", "CurveTo"} ->
            IF st.haveLastPt
            THEN [i \in 1..12 |-> wxPoint(CurveSamples(st.lastPt, seg)[i + 1])]
            ELSE << >>
      [] seg.type = "Arc" ->
            [i \in 1..13 |->
                wxPoint(ApproxArc(ToMilli(seg.points[1]), seg.radius,
                                  seg.startAngle * M_PI, seg.endAngle * M_PI,
                                  seg.clockwise, 12)[i])]
      [] seg.type = "ArcTo" ->
            IF st.haveLastPt THEN <<seg.points[1], seg.points[2]>> ELSE << >>
      [] OTHER -> << >>

\* The walk from its k-th turn on, in state st, with the account acc of the
\* points appended so far and of the points handed so far to the polylines
\* and polygons that flush the accumulated subpath (the outline of a rounded
\* rectangle is not accumulated).
RECURSIVE Account(_, _, _, _, _, _)
Account(dc, rule, st, segments, k, acc) ==
    IF k > Len(segments) THEN [acc EXCEPT !.end = st]
    ELSE \* the state after the turn, evaluated once
         LET turn(after) ==
                Account(dc, rule, after, segments, k + 1,
                    [acc EXCEPT
                        !.appended = @ \o Appended(st, segments[k]),
                        !.flushed = @ \o
                            (IF segments[k].type = "RoundedRectangle" THEN << >>
                             ELSE Flat(From(after.drawn, Len(st.drawn) + 1)))])
         IN  turn(RenderSegment(dc, rule, st, segments[k]))

\* C26: in a run of the walk that returns, the points appended to the
\* accumulated subpath are, in the order appended, the points handed to the
\* polylines and polygons that flush it, each to one of them; none is pending
\* when the run returns, none is dropped and none is handed over twice.
C26_PointsFlushedOnce ==
    [][WalkReturned(last', ret') =>
        LET dc == ctx[last'.ctx].m_context.value
            segments == paths[last'.path].m_segments
            rule == RuleOf(last')
            drawn == Primitives(calls')
        IN  \A account \in {Account(dc, rule, WalkStart, segments, 1,
                                    [appended |-> << >>, flushed |-> << >>,
                                     end |-> WalkStart])} :
                LET atEnd == From(drawn, Len(account.end.drawn) + 1)
                IN  /\ StartsWith(drawn, account.end.drawn)
                    /\ Len(atEnd) <= 1
                    /\ account.appended = account.flushed \o Flat(atEnd)]_vars

\* DrawPath has returned after a walk over LineTo, MoveTo, Arc: a polyline of
\* the one point before the MoveTo, then a polyline of the MoveTo point and
\* the 13 samples of the arc.
C26_Witness ==
    /\ last.op = "DrawPath"
    /\ ctx[last.ctx].m_context = HoldsDC("svgDC")
    /\ ret = Void
    /\ LET segments == paths[last.path].m_segments
       IN  /\ Len(segments) = 3
           /\ segments[1].type = "LineTo"
           /\ segments[2].type = "MoveTo"
           /\ segments[3].type = "Arc"
    /\ Len(calls) = 2
    /\ calls[1] = Call("svgDC", "DrawLines", <<(<<10, 0>>)>>)
    /\ calls[2].op = "DrawLines"
    /\ Len(calls[2].arg) = 14

----------------------------------------------------------------------------
(* Properties of DrawPathOnDC on its own *)

\* The segments of a sequence that carry the points their kind needs.
Complete(segments) == SelectSeq(segments, EnoughPoints)

====
